---- MODULE Spec2Model ----
(***************************************************************************)
(* DAMON: the data access monitor of mm/damon/core.c (context groups, one  *)
(* kdamond worker per context) and of mm/damon.c (the single-context       *)
(* monitor with its attributes).                                           *)
(*                                                                         *)
(* Mutex critical sections are two steps: the acquisition, then the body   *)
(* together with the release.  Addresses are plain numbers.               *)
(***************************************************************************)
EXTENDS Integers, Sequences, FiniteSets, TLC

(* ------------------------------------------------------------------ *)
(* Bounds of the model                                                 *)
(* ------------------------------------------------------------------ *)

\* Number of damon_start()/damon_stop() calls the caller of Spec makes.
MaxCalls == 3

\* Number of calls the two callers of SpecGroup make together.
MaxGroupCalls == 2

\* Largest nr_accesses a check_accesses hook of the model counts up to.
MaxNrAccesses == 1

Ctxs == {"c1", "c2"}
Callers == {"u1", "u2"}

\* kthread slots a context's workers are created in, in allocation order.
Threads == <<"k1", "k2">>

\* The context groups handed to damon_start()/damon_stop().
Groups == {<<"c1">>, <<"c1", "c2">>, <<"c1", "c1">>}

\* The ids monitoring targets have.
AllTargetIds == {1, 2}

VARIABLES
    damon_lock,       \* owner of the process-wide mutex
    nr_running_ctxs,  \* the running-context counter
    kdamond,          \* ctx -> "NULL", "ERR" (an ERR_PTR) or the worker's thread
    kdamond_stop,     \* ctx -> BOOLEAN
    kdamond_lock,     \* ctx -> owner of the context mutex
    targets,          \* ctx -> sequence of [id, regions]
    has_target_valid, \* ctx -> whether primitive.target_valid is set
    has_init_regions, \* ctx -> whether primitive.init_target_regions is set
    has_callbacks,    \* ctx -> whether the callbacks are set (and may return true)
    alive,            \* the target ids for which target_valid returns true
    kth,              \* ctx -> thread -> the worker's position and locals
    usr,              \* caller -> the call in progress and its locals
    ncalls,           \* calls begun so far
    attrs,            \* the attributes of damon_user_ctx (mm/damon.c)
    attr_call,        \* the last damon_set_attrs() call of mm/damon.c and its result
    tgt_call,         \* the last damon_set_targets() call and its result
    tasks,            \* the tasks of the context of mm/damon.c, each [pid, regions]
    rop,              \* the last step taken on the regions of tasks, and tasks before it
    nops,             \* steps taken on the regions of tasks so far
    kpc,              \* where the worker of mm/damon.c is in kdamond_fn()
    max_nr_accesses,  \* the local max_nr_accesses of kdamond_fn() of mm/damon.c
    mm_ok,            \* the pids whose address space damon_get_mm() obtains
    young,            \* the pages <<address space, page>> whose accessed bit is set
    last_chk,         \* the static variables of damon_check_access()
    pa_last,          \* the static variables of __damon_pa_check_access()
    obs,              \* what the steps of the worker of mm/damon.c saw and did
    mmap,             \* the vmas of the address space of the tasks, in address order
    schemes           \* ctx -> the schemes (struct damos) of its schemes_list

vars == <<damon_lock, nr_running_ctxs, kdamond, kdamond_stop, kdamond_lock,
          targets, has_target_valid, has_init_regions, has_callbacks, alive, kth, usr, ncalls, attrs, attr_call,
          tgt_call, tasks, rop, nops,
          kpc, max_nr_accesses, mm_ok, young, last_chk, pa_last, obs, mmap, schemes>>

core_vars == <<damon_lock, nr_running_ctxs, kdamond, kdamond_stop, kdamond_lock,
               targets, has_target_valid, has_init_regions, has_callbacks, alive, kth, usr, ncalls>>

attr_vars == <<attrs, attr_call>>

mon_vars == <<kpc, max_nr_accesses, mm_ok, young, last_chk, pa_last, obs, mmap,
              schemes>>

rgn_vars == <<tgt_call, tasks, rop, nops, mon_vars>>

(* ------------------------------------------------------------------ *)
(* Data structures                                                     *)
(* ------------------------------------------------------------------ *)

NoOwner == [kind |-> "none", id |-> "", k |-> ""]
User(u) == [kind |-> "user", id |-> u, k |-> ""]
Kd(c, k) == [kind |-> "kdamond", id |-> c, k |-> k]

\* What a field that kmalloc() left unset holds until it is written.
Uninit == -1

damon_new_region(start, end) ==
    [start |-> start, end |-> end, sampling_addr |-> Uninit, nr_accesses |-> 0]

damon_new_target(id) == [id |-> id, regions |-> <<>>]

\* The region list the init_target_regions hook of the model builds for a target.
InitRegions == <<damon_new_region(0, 2)>>

RECURSIVE SumSeq(_)
SumSeq(s) == IF s = <<>> THEN 0 ELSE Head(s) + SumSeq(Tail(s))

damon_nr_regions(t) == Len(t.regions)

\* Total number of regions of a context's targets.
NrRegionsOf(c) == SumSeq([i \in DOMAIN targets[c] |-> damon_nr_regions(targets[c][i])])

\* A worker slot nobody runs in.
NoThread == [pc |-> "none", cont |-> "", log |-> <<>>, cb_true |-> FALSE,
             dead_at_start |-> FALSE, stat0 |-> <<>>]

\* A caller outside any call.
IdleUser == [pc |-> "idle", op |-> "", ctxs |-> <<>>, i |-> 1, err |-> "0",
             pre |-> 0, spawned |-> <<>>, incs |-> 0,
             started |-> <<>>, started_pre |-> 0]

damon_kdamond_running(c) == kdamond[c] # "NULL"

IS_ERR(p) == p = "ERR"

FreeThreads(c) == {j \in DOMAIN Threads : kth[c][Threads[j]].pc = "none"}

\* The slot kthread_create() runs the next worker of c in.
NextThread(c) == Threads[CHOOSE j \in FreeThreads(c) : \A m \in FreeThreads(c) : j <= m]

ThreadIds == {Threads[j] : j \in DOMAIN Threads}

AllInvalid(c) == \A i \in DOMAIN targets[c] : targets[c][i].id \notin alive

\* The attributes of damon_user_ctx, the context of mm/damon.c.
damon_user_ctx ==
    [sample_interval |-> 5 * 1000, aggr_interval |-> 100 * 1000,
     regions_update_interval |-> 1000 * 1000,
     min_nr_regions |-> 10, max_nr_regions |-> 1000]

\* No damon_set_attrs() call was made yet.
NoAttrCall == [called |-> FALSE, args |-> damon_user_ctx, ret |-> "0"]

\* No damon_set_targets() call was made yet.
NoTargetsCall == [called |-> FALSE, ctx |-> "", ids |-> <<>>, built |-> 0, ret |-> "0"]

\* No step was taken on the regions of tasks yet.
NoRegionOp == [op |-> "none", pre |-> <<>>, arg |-> 0]

\* The size of a page and of a huge page, in the address units of the model.
PAGE_SIZE == 2

HPAGE_SIZE == 4

ALIGN_DOWN(x, a) == x - (x % a)

\* The static variables of damon_check_access() before its first call.
NoLastCheck == [last_mm |-> 0, last_addr |-> 0, last_page_sz |-> PAGE_SIZE,
                last_accessed |-> FALSE]

\* The static variables of __damon_pa_check_access() before its first call.
NoPaLastCheck == [last_addr |-> 0, last_page_sz |-> PAGE_SIZE, last_accessed |-> FALSE]

\* The worker of mm/damon.c has taken no step.
NoObs == [iter |-> 0, log |-> <<>>, prep |-> <<>>, aggr_pre |-> <<>>,
          cb_seen |-> <<>>, ret |-> 0, last0 |-> NoLastCheck]

\* No worker of mm/damon.c runs and no page was accessed; the address space of
\* the tasks has the given vmas and the contexts the given schemes.
InitMonFull(vmas, schs) ==
    /\ mmap = vmas
    /\ schemes = schs
    /\ kpc = "none"
    /\ max_nr_accesses = 0
    /\ mm_ok = {}
    /\ young = {}
    /\ last_chk = NoLastCheck
    /\ pa_last = NoPaLastCheck
    /\ obs = NoObs

InitMonWith(vmas) == InitMonFull(vmas, [c \in Ctxs |-> <<>>])

InitMon == InitMonWith(<<>>)

\* The state after the contexts are set up, with the target lists and the
\* primitive and callback hooks given.
InitCore(tgts, tv, ir, cb) ==
    /\ damon_lock = NoOwner
    /\ nr_running_ctxs = 0
    /\ kdamond = [c \in Ctxs |-> "NULL"]
    /\ kdamond_stop = [c \in Ctxs |-> FALSE]
    /\ kdamond_lock = [c \in Ctxs |-> NoOwner]
    /\ targets = tgts
    /\ has_target_valid = tv
    /\ has_init_regions = ir
    /\ has_callbacks = cb
    /\ alive = AllTargetIds
    /\ kth = [c \in Ctxs |-> [k \in ThreadIds |-> NoThread]]
    /\ usr = [u \in Callers |-> IdleUser]
    /\ ncalls = 0

\* The contexts of mm/damon/core.c are set up as given; damon_user_ctx of
\* mm/damon.c has its initial attributes and no task.
InitCtxs(tgts, tv, ir, cb) ==
    /\ InitCore(tgts, tv, ir, cb)
    /\ attrs = damon_user_ctx
    /\ attr_call = NoAttrCall
    /\ tgt_call = NoTargetsCall
    /\ tasks = <<>>
    /\ rop = NoRegionOp
    /\ nops = 0
    /\ InitMon

\* The state after damon_set_targets(ctx, ids[ctx]) on every context.
InitWith(ids, tv, ir, cb) ==
    InitCtxs([c \in Ctxs |-> [i \in DOMAIN ids[c] |-> damon_new_target(ids[c][i])]],
             tv, ir, cb)

\* One context is monitored: with two targets or none, with or without a
\* target_valid hook, with a primitive that builds regions and with callbacks.
Init ==
    \E ids \in {[c1 |-> <<1, 2>>, c2 |-> <<>>], [c1 |-> <<>>, c2 |-> <<>>]},
       tv \in [Ctxs -> BOOLEAN] :
       /\ tv["c2"]
       /\ InitWith(ids, tv, [c \in Ctxs |-> TRUE], [c \in Ctxs |-> TRUE])

(* ------------------------------------------------------------------ *)
(* kdamond_fn() of mm/damon/core.c: the monitoring worker               *)
(* ------------------------------------------------------------------ *)

\* kdamond_call_prmt(ctx, init_target_regions): the primitive, if set, builds
\* every target's regions.
KdamondInitRegions(c, k) ==
    /\ kth[c][k].pc = "init"
    /\ IF has_init_regions[c]
       THEN targets' = [targets EXCEPT ![c] =
               [i \in DOMAIN targets[c] |-> [targets[c][i] EXCEPT !.regions = InitRegions]]]
       ELSE targets' = targets
    /\ kth' = [kth EXCEPT ![c][k].pc = "before_start"]
    /\ UNCHANGED <<damon_lock, nr_running_ctxs, kdamond, kdamond_stop, kdamond_lock,
                   has_target_valid, has_init_regions, has_callbacks, alive, usr, ncalls, attr_vars, rgn_vars>>

\* The steps kdamond_fn() takes after its loop, in program order.
ExitOrder == <<"destroy_regions", "before_terminate", "cleanup", "clear_kdamond",
               "dec_nr_running_ctxs">>

\* The worker's record once it has taken the step `what` (a step of ExitOrder is
\* written to the worker's log).
Logged(c, k, what) ==
    IF \E j \in DOMAIN ExitOrder : ExitOrder[j] = what
    THEN [kth[c][k] EXCEPT !.log = Append(@, what)]
    ELSE kth[c][k]

\* kdamond_callback() with the bug that a true return is ignored: the worker goes
\* on without set_kdamond_stop(ctx, true).
kdamond_callback_ignored(c, k, fn, next) ==
    /\ \/ kth' = [kth EXCEPT ![c][k] = [Logged(c, k, fn) EXCEPT !.pc = next]]
       \/ /\ has_callbacks[c]
          /\ kth' = [kth EXCEPT ![c][k] = [Logged(c, k, fn) EXCEPT !.pc = next,
                                              !.cb_true = TRUE]]
    /\ UNCHANGED <<damon_lock, nr_running_ctxs, kdamond, kdamond_stop, kdamond_lock,
                   targets, has_target_valid, has_init_regions, has_callbacks, alive, usr, ncalls, attr_vars, rgn_vars>>

\* The kdamond_callback() macro: a callback fn that is set and returns true
\* makes the worker call set_kdamond_stop(ctx, true) before it goes on.
kdamond_callback(c, k, fn, next) ==
    /\ \/ kth' = [kth EXCEPT ![c][k] = [Logged(c, k, fn) EXCEPT !.pc = next]]
       \/ /\ has_callbacks[c]
          /\ kth' = [kth EXCEPT ![c][k] = [Logged(c, k, fn) EXCEPT !.pc = "set_stop",
                                              !.cont = next, !.cb_true = TRUE]]
    /\ UNCHANGED <<damon_lock, nr_running_ctxs, kdamond, kdamond_stop, kdamond_lock,
                   targets, has_target_valid, has_init_regions, has_callbacks, alive, usr, ncalls, attr_vars, rgn_vars>>

\* set_kdamond_stop(): mutex_lock(&ctx->kdamond_lock)
SetStopLock(c, k) ==
    /\ kth[c][k].pc = "set_stop"
    /\ kdamond_lock[c] = NoOwner
    /\ kdamond_lock' = [kdamond_lock EXCEPT ![c] = Kd(c, k)]
    /\ kth' = [kth EXCEPT ![c][k].pc = "set_stop_cs"]
    /\ UNCHANGED <<damon_lock, nr_running_ctxs, kdamond, kdamond_stop,
                   targets, has_target_valid, has_init_regions, has_callbacks, alive, usr, ncalls, attr_vars, rgn_vars>>

\* set_kdamond_stop(): ctx->kdamond_stop = stop; mutex_unlock()
set_kdamond_stop(c, k) ==
    /\ kth[c][k].pc = "set_stop_cs"
    /\ kdamond_stop' = [kdamond_stop EXCEPT ![c] = TRUE]
    /\ kdamond_lock' = [kdamond_lock EXCEPT ![c] = NoOwner]
    /\ kth' = [kth EXCEPT ![c][k].pc = kth[c][k].cont, ![c][k].cont = ""]
    /\ UNCHANGED <<damon_lock, nr_running_ctxs, kdamond,
                   targets, has_target_valid, has_init_regions, has_callbacks, alive, usr, ncalls, attr_vars, rgn_vars>>

KdamondBeforeStart(c, k) ==
    /\ kth[c][k].pc = "before_start"
    /\ kdamond_callback(c, k, "before_start", "need_stop")

target_valid(t) == t.id \in alive

\* kdamond_need_stop() with the bug that one invalid target ends the monitoring.
kdamond_need_stop_any(c) ==
    IF kdamond_stop[c] THEN TRUE
    ELSE IF ~has_target_valid[c] THEN FALSE
    ELSE \E i \in DOMAIN targets[c] : ~target_valid(targets[c][i])

\* kdamond_need_stop(): the value it returns, read with kdamond_lock held.
kdamond_need_stop(c) ==
    IF kdamond_stop[c] THEN TRUE
    ELSE IF ~has_target_valid[c] THEN FALSE
    ELSE ~(\E i \in DOMAIN targets[c] : target_valid(targets[c][i]))

\* kdamond_need_stop(): mutex_lock(&ctx->kdamond_lock)
NeedStopLock(c, k) ==
    /\ kth[c][k].pc = "need_stop"
    /\ kdamond_lock[c] = NoOwner
    /\ kdamond_lock' = [kdamond_lock EXCEPT ![c] = Kd(c, k)]
    /\ kth' = [kth EXCEPT ![c][k].pc = "need_stop_cs"]
    /\ UNCHANGED <<damon_lock, nr_running_ctxs, kdamond, kdamond_stop,
                   targets, has_target_valid, has_init_regions, has_callbacks, alive, usr, ncalls, attr_vars, rgn_vars>>

\* while (!kdamond_need_stop(ctx)): enter the loop body or leave the loop.
KdamondNeedStop(c, k) ==
    /\ kth[c][k].pc = "need_stop_cs"
    /\ kdamond_lock' = [kdamond_lock EXCEPT ![c] = NoOwner]
    /\ kth' = [kth EXCEPT ![c][k].pc =
                 IF kdamond_need_stop(c) THEN "destroy" ELSE "prepare"]
    /\ UNCHANGED <<damon_lock, nr_running_ctxs, kdamond, kdamond_stop,
                   targets, has_target_valid, has_init_regions, has_callbacks, alive, usr, ncalls, attr_vars, rgn_vars>>

\* kdamond_call_prmt(ctx, prepare_access_checks)
KdamondPrepare(c, k) ==
    /\ kth[c][k].pc = "prepare"
    /\ kth' = [kth EXCEPT ![c][k].pc = "after_sampling"]
    /\ UNCHANGED <<damon_lock, nr_running_ctxs, kdamond, kdamond_stop, kdamond_lock,
                   targets, has_target_valid, has_init_regions, has_callbacks, alive, usr, ncalls, attr_vars, rgn_vars>>

KdamondAfterSampling(c, k) ==
    /\ kth[c][k].pc = "after_sampling"
    /\ kdamond_callback(c, k, "after_sampling", "sleep")

\* usleep_range(ctx->sample_interval, ctx->sample_interval + 1)
KdamondSleep(c, k) ==
    /\ kth[c][k].pc = "sleep"
    /\ kth' = [kth EXCEPT ![c][k].pc = "check"]
    /\ UNCHANGED <<damon_lock, nr_running_ctxs, kdamond, kdamond_stop, kdamond_lock,
                   targets, has_target_valid, has_init_regions, has_callbacks, alive, usr, ncalls, attr_vars, rgn_vars>>

\* kdamond_call_prmt(ctx, check_accesses): the primitive increments the
\* nr_accesses of the regions whose sampled page it finds accessed; the model's
\* primitive finds the sampled pages of a context accessed all together or not
\* at all, and stops counting at MaxNrAccesses.
KdamondCheckAccesses(c, k) ==
    /\ kth[c][k].pc = "check"
    /\ \E accessed \in BOOLEAN :
          targets' = [targets EXCEPT ![c] =
             [i \in DOMAIN targets[c] |-> [targets[c][i] EXCEPT !.regions =
                [j \in DOMAIN targets[c][i].regions |->
                   IF accessed /\ targets[c][i].regions[j].nr_accesses < MaxNrAccesses
                   THEN [targets[c][i].regions[j] EXCEPT !.nr_accesses = @ + 1]
                   ELSE targets[c][i].regions[j]]]]]
    /\ kth' = [kth EXCEPT ![c][k].pc = "aggregate"]
    /\ UNCHANGED <<damon_lock, nr_running_ctxs, kdamond, kdamond_stop, kdamond_lock,
                   has_target_valid, has_init_regions, has_callbacks, alive, usr, ncalls, attr_vars, rgn_vars>>

\* if (kdamond_aggregate_interval_passed(ctx)): whether aggr_interval has
\* passed since last_aggregation is the clock's choice.  stat0 notes the
\* schemes as they are when the aggregation begins.
KdamondAggregate(c, k) ==
    /\ kth[c][k].pc = "aggregate"
    /\ \/ kth' = [kth EXCEPT ![c][k].pc = "after_aggregation",
                              ![c][k].stat0 = schemes[c]]
       \/ kth' = [kth EXCEPT ![c][k].pc = "need_stop"]
    /\ UNCHANGED <<damon_lock, nr_running_ctxs, kdamond, kdamond_stop, kdamond_lock,
                   targets, has_target_valid, has_init_regions, has_callbacks, alive, usr, ncalls, attr_vars, rgn_vars>>

KdamondAfterAggregation(c, k) ==
    /\ kth[c][k].pc = "after_aggregation"
    /\ kdamond_callback(c, k, "after_aggregation", "reset")

\* kdamond_reset_aggregated(): nr_accesses = 0 in every region.
kdamond_reset_aggregated(c, k) ==
    /\ kth[c][k].pc = "reset"
    /\ targets' = [targets EXCEPT ![c] =
          [i \in DOMAIN targets[c] |-> [targets[c][i] EXCEPT !.regions =
             [j \in DOMAIN targets[c][i].regions |->
                [targets[c][i].regions[j] EXCEPT !.nr_accesses = 0]]]]]
    /\ kth' = [kth EXCEPT ![c][k].pc = "need_stop"]
    /\ UNCHANGED <<damon_lock, nr_running_ctxs, kdamond, kdamond_stop, kdamond_lock,
                   has_target_valid, has_init_regions, has_callbacks, alive, usr, ncalls, attr_vars, rgn_vars>>

\* damon_for_each_target / damon_for_each_region_safe: damon_destroy_region(r)
KdamondDestroyRegions(c, k) ==
    /\ kth[c][k].pc = "destroy"
    /\ targets' = [targets EXCEPT ![c] =
          [i \in DOMAIN targets[c] |-> [targets[c][i] EXCEPT !.regions = <<>>]]]
    /\ kth' = [kth EXCEPT ![c][k] = [Logged(c, k, "destroy_regions") EXCEPT
                                         !.pc = "before_terminate"]]
    /\ UNCHANGED <<damon_lock, nr_running_ctxs, kdamond, kdamond_stop, kdamond_lock,
                   has_target_valid, has_init_regions, has_callbacks, alive, usr, ncalls, attr_vars, rgn_vars>>

\* kdamond_callback(ctx, before_terminate)
KdamondBeforeTerminate(c, k) ==
    /\ kth[c][k].pc = "before_terminate"
    /\ kdamond_callback(c, k, "before_terminate", "cleanup")

\* The cleanup step with the bug that the worker goes on to the decrement
\* without clearing ctx->kdamond.
KdamondCleanupNoClear(c, k) ==
    /\ kth[c][k].pc = "cleanup"
    /\ kth' = [kth EXCEPT ![c][k] = [Logged(c, k, "cleanup") EXCEPT !.pc = "dec"]]
    /\ UNCHANGED <<damon_lock, nr_running_ctxs, kdamond, kdamond_stop, kdamond_lock,
                   targets, has_target_valid, has_init_regions, has_callbacks, alive, usr, ncalls, attr_vars, rgn_vars>>

\* kdamond_call_prmt(ctx, cleanup)
KdamondCleanup(c, k) ==
    /\ kth[c][k].pc = "cleanup"
    /\ kth' = [kth EXCEPT ![c][k] = [Logged(c, k, "cleanup") EXCEPT !.pc = "clear"]]
    /\ UNCHANGED <<damon_lock, nr_running_ctxs, kdamond, kdamond_stop, kdamond_lock,
                   targets, has_target_valid, has_init_regions, has_callbacks, alive, usr, ncalls, attr_vars, rgn_vars>>

\* mutex_lock(&ctx->kdamond_lock) before ctx->kdamond = NULL
KdamondClearLock(c, k) ==
    /\ kth[c][k].pc = "clear"
    /\ kdamond_lock[c] = NoOwner
    /\ kdamond_lock' = [kdamond_lock EXCEPT ![c] = Kd(c, k)]
    /\ kth' = [kth EXCEPT ![c][k].pc = "clear_cs"]
    /\ UNCHANGED <<damon_lock, nr_running_ctxs, kdamond, kdamond_stop,
                   targets, has_target_valid, has_init_regions, has_callbacks, alive, usr, ncalls, attr_vars, rgn_vars>>

\* ctx->kdamond = NULL; mutex_unlock(&ctx->kdamond_lock)
KdamondClear(c, k) ==
    /\ kth[c][k].pc = "clear_cs"
    /\ kdamond' = [kdamond EXCEPT ![c] = "NULL"]
    /\ kdamond_lock' = [kdamond_lock EXCEPT ![c] = NoOwner]
    /\ kth' = [kth EXCEPT ![c][k] = [Logged(c, k, "clear_kdamond") EXCEPT !.pc = "dec"]]
    /\ UNCHANGED <<damon_lock, nr_running_ctxs, kdamond_stop,
                   targets, has_target_valid, has_init_regions, has_callbacks, alive, usr, ncalls, attr_vars, rgn_vars>>

\* mutex_lock(&damon_lock) before nr_running_ctxs--
KdamondDecLock(c, k) ==
    /\ kth[c][k].pc = "dec"
    /\ damon_lock = NoOwner
    /\ damon_lock' = Kd(c, k)
    /\ kth' = [kth EXCEPT ![c][k].pc = "dec_cs"]
    /\ UNCHANGED <<nr_running_ctxs, kdamond, kdamond_stop, kdamond_lock,
                   targets, has_target_valid, has_init_regions, has_callbacks, alive, usr, ncalls, attr_vars, rgn_vars>>

\* The end of a kdamond_fn() that takes two from nr_running_ctxs.
KdamondDecTwice(c, k) ==
    /\ kth[c][k].pc = "dec_cs"
    /\ nr_running_ctxs' = nr_running_ctxs - 2
    /\ damon_lock' = NoOwner
    /\ kth' = [kth EXCEPT ![c][k] = [Logged(c, k, "dec_nr_running_ctxs") EXCEPT
                                         !.pc = "exit"]]
    /\ UNCHANGED <<kdamond, kdamond_stop, kdamond_lock,
                   targets, has_target_valid, has_init_regions, has_callbacks, alive, usr, ncalls, attr_vars, rgn_vars>>

\* nr_running_ctxs--; mutex_unlock(&damon_lock)
KdamondDec(c, k) ==
    /\ kth[c][k].pc = "dec_cs"
    /\ nr_running_ctxs' = nr_running_ctxs - 1
    /\ damon_lock' = NoOwner
    /\ kth' = [kth EXCEPT ![c][k] = [Logged(c, k, "dec_nr_running_ctxs") EXCEPT
                                         !.pc = "exit"]]
    /\ UNCHANGED <<kdamond, kdamond_stop, kdamond_lock,
                   targets, has_target_valid, has_init_regions, has_callbacks, alive, usr, ncalls, attr_vars, rgn_vars>>

\* do_exit(0): the thread is gone.
KdamondExit(c, k) ==
    /\ kth[c][k].pc = "exit"
    /\ kth' = [kth EXCEPT ![c][k] = NoThread]
    /\ UNCHANGED <<damon_lock, nr_running_ctxs, kdamond, kdamond_stop, kdamond_lock,
                   targets, has_target_valid, has_init_regions, has_callbacks, alive, usr, ncalls, attr_vars, rgn_vars>>

kdamond_fn(c, k) ==
    \/ KdamondInitRegions(c, k)
    \/ KdamondBeforeStart(c, k)
    \/ SetStopLock(c, k)
    \/ set_kdamond_stop(c, k)
    \/ NeedStopLock(c, k)
    \/ KdamondNeedStop(c, k)
    \/ KdamondPrepare(c, k)
    \/ KdamondAfterSampling(c, k)
    \/ KdamondSleep(c, k)
    \/ KdamondCheckAccesses(c, k)
    \/ KdamondAggregate(c, k)
    \/ KdamondAfterAggregation(c, k)
    \/ kdamond_reset_aggregated(c, k)
    \/ KdamondDestroyRegions(c, k)
    \/ KdamondBeforeTerminate(c, k)
    \/ KdamondCleanup(c, k)
    \/ KdamondClearLock(c, k)
    \/ KdamondClear(c, k)
    \/ KdamondDecLock(c, k)
    \/ KdamondDec(c, k)
    \/ KdamondExit(c, k)

\* A monitoring target goes away: target_valid() is false for it from now on.
TargetDies(t) ==
    /\ t \in alive
    /\ alive' = alive \ {t}
    /\ UNCHANGED <<damon_lock, nr_running_ctxs, kdamond, kdamond_stop, kdamond_lock,
                   targets, has_target_valid, has_init_regions, has_callbacks, kth, usr, ncalls, attr_vars, rgn_vars>>

(* ------------------------------------------------------------------ *)
(* damon_start() and damon_stop() of mm/damon/core.c                    *)
(* ------------------------------------------------------------------ *)

\* A caller enters damon_start(ctxs, nr_ctxs), as one of at most max calls.
CallStart(u, g, max) ==
    /\ usr[u].pc = "idle"
    /\ ncalls < max
    /\ ncalls' = ncalls + 1
    /\ usr' = [usr EXCEPT ![u] = [IdleUser EXCEPT !.pc = "start", !.op = "start",
                                                  !.ctxs = g]]
    /\ UNCHANGED <<damon_lock, nr_running_ctxs, kdamond, kdamond_stop, kdamond_lock,
                   targets, has_target_valid, has_init_regions, has_callbacks, alive, kth, attr_vars, rgn_vars>>

\* damon_start(): mutex_lock(&damon_lock)
StartLock(u) ==
    /\ usr[u].pc = "start"
    /\ damon_lock = NoOwner
    /\ damon_lock' = User(u)
    /\ usr' = [usr EXCEPT ![u].pc = "start_cs"]
    /\ UNCHANGED <<nr_running_ctxs, kdamond, kdamond_stop, kdamond_lock,
                   targets, has_target_valid, has_init_regions, has_callbacks, alive, kth, ncalls, attr_vars, rgn_vars>>

\* damon_start(): if (nr_running_ctxs) { mutex_unlock(); return -EBUSY; }
StartCheck(u) ==
    /\ usr[u].pc = "start_cs"
    /\ IF nr_running_ctxs # 0
       THEN /\ damon_lock' = NoOwner
            /\ usr' = [usr EXCEPT ![u].pc = "idle", ![u].err = "-EBUSY",
                                  ![u].pre = nr_running_ctxs]
       ELSE /\ damon_lock' = damon_lock
            /\ usr' = [usr EXCEPT ![u].pc = "start_loop", ![u].pre = nr_running_ctxs]
    /\ UNCHANGED <<nr_running_ctxs, kdamond, kdamond_stop, kdamond_lock,
                   targets, has_target_valid, has_init_regions, has_callbacks, alive, kth, ncalls, attr_vars, rgn_vars>>

\* __damon_start(): mutex_lock(&ctx->kdamond_lock)
StartCtxLock(u) ==
    /\ usr[u].pc = "start_loop"
    /\ usr[u].err = "0"
    /\ usr[u].i <= Len(usr[u].ctxs)
    /\ kdamond_lock[usr[u].ctxs[usr[u].i]] = NoOwner
    /\ kdamond_lock' = [kdamond_lock EXCEPT ![usr[u].ctxs[usr[u].i]] = User(u)]
    /\ usr' = [usr EXCEPT ![u].pc = "start_ctx_cs"]
    /\ UNCHANGED <<damon_lock, nr_running_ctxs, kdamond, kdamond_stop,
                   targets, has_target_valid, has_init_regions, has_callbacks, alive, kth, ncalls, attr_vars, rgn_vars>>

\* kthread_create() and wake_up_process(): a new worker of c starts in kdamond_fn().
Spawn(c, k) ==
    [kth EXCEPT ![c][k] = [NoThread EXCEPT !.pc = "init",
                              !.dead_at_start = has_target_valid[c] /\ AllInvalid(c)]]

\* __damon_start() with the bug that damon_start() does not count the worker.
__damon_start_uncounted(u, c) ==
    /\ kdamond_lock' = [kdamond_lock EXCEPT ![c] = NoOwner]
    /\ IF kdamond[c] = "NULL"
       THEN /\ kdamond_stop' = [kdamond_stop EXCEPT ![c] = FALSE]
            /\ \/ /\ FreeThreads(c) # {}
                  /\ kdamond' = [kdamond EXCEPT ![c] = NextThread(c)]
                  /\ kth' = Spawn(c, NextThread(c))
                  /\ nr_running_ctxs' = nr_running_ctxs
                  /\ usr' = [usr EXCEPT ![u].pc = "start_loop", ![u].i = @ + 1,
                                        ![u].spawned = Append(@, c)]
               \/ /\ kdamond' = [kdamond EXCEPT ![c] = "ERR"]
                  /\ usr' = [usr EXCEPT ![u].pc = "start_loop", ![u].err = "-ENOMEM"]
                  /\ UNCHANGED <<kth, nr_running_ctxs>>
       ELSE /\ usr' = [usr EXCEPT ![u].pc = "start_loop", ![u].err = "-EBUSY"]
            /\ UNCHANGED <<kdamond, kdamond_stop, kth, nr_running_ctxs>>
    /\ UNCHANGED <<damon_lock, targets, has_target_valid, has_init_regions, has_callbacks, alive, ncalls, attr_vars, rgn_vars>>

\* __damon_start() with the bug that it does not look at ctx->kdamond before it
\* creates the worker.
__damon_start_unchecked(u, c) ==
    /\ kdamond_lock' = [kdamond_lock EXCEPT ![c] = NoOwner]
    /\ kdamond_stop' = [kdamond_stop EXCEPT ![c] = FALSE]
    /\ \/ /\ FreeThreads(c) # {}
          /\ kdamond' = [kdamond EXCEPT ![c] = NextThread(c)]
          /\ kth' = Spawn(c, NextThread(c))
          /\ nr_running_ctxs' = nr_running_ctxs + 1
          /\ usr' = [usr EXCEPT ![u].pc = "start_loop", ![u].i = @ + 1,
                                ![u].spawned = Append(@, c),
                                ![u].incs = @ + 1]
       \/ /\ kdamond' = [kdamond EXCEPT ![c] = "ERR"]
          /\ usr' = [usr EXCEPT ![u].pc = "start_loop", ![u].err = "-ENOMEM"]
          /\ UNCHANGED <<kth, nr_running_ctxs>>
    /\ UNCHANGED <<damon_lock, targets, has_target_valid, has_init_regions, has_callbacks, alive, ncalls, attr_vars, rgn_vars>>

\* __damon_start() with kdamond_lock held, up to its mutex_unlock(), and the
\* loop body of damon_start() that called it: break on an error, else
\* nr_running_ctxs++.
\* __damon_start() with the bug that ctx->kdamond_stop keeps the value the
\* previous run left in it.
__damon_start_keeps_stop(u, c) ==
    /\ kdamond_lock' = [kdamond_lock EXCEPT ![c] = NoOwner]
    /\ IF kdamond[c] = "NULL"
       THEN /\ kdamond_stop' = kdamond_stop
            /\ \/ /\ FreeThreads(c) # {}
                  /\ kdamond' = [kdamond EXCEPT ![c] = NextThread(c)]
                  /\ kth' = Spawn(c, NextThread(c))
                  /\ nr_running_ctxs' = nr_running_ctxs + 1
                  /\ usr' = [usr EXCEPT ![u].pc = "start_loop", ![u].i = @ + 1,
                                        ![u].spawned = Append(@, c),
                                        ![u].incs = @ + 1]
               \/ /\ kdamond' = [kdamond EXCEPT ![c] = "ERR"]
                  /\ usr' = [usr EXCEPT ![u].pc = "start_loop", ![u].err = "-ENOMEM"]
                  /\ UNCHANGED <<kth, nr_running_ctxs>>
       ELSE /\ usr' = [usr EXCEPT ![u].pc = "start_loop", ![u].err = "-EBUSY"]
            /\ UNCHANGED <<kdamond, kdamond_stop, kth, nr_running_ctxs>>
    /\ UNCHANGED <<damon_lock, targets, has_target_valid, has_init_regions, has_callbacks, alive, ncalls, attr_vars, rgn_vars>>

__damon_start(u, c) ==
    /\ kdamond_lock' = [kdamond_lock EXCEPT ![c] = NoOwner]
    /\ IF kdamond[c] = "NULL"
       THEN /\ kdamond_stop' = [kdamond_stop EXCEPT ![c] = FALSE]
            /\ \/ /\ FreeThreads(c) # {}
                  /\ kdamond' = [kdamond EXCEPT ![c] = NextThread(c)]
                  /\ kth' = Spawn(c, NextThread(c))
                  /\ nr_running_ctxs' = nr_running_ctxs + 1
                  /\ usr' = [usr EXCEPT ![u].pc = "start_loop", ![u].i = @ + 1,
                                        ![u].spawned = Append(@, c),
                                        ![u].incs = @ + 1]
               \/ /\ kdamond' = [kdamond EXCEPT ![c] = "ERR"]
                  /\ usr' = [usr EXCEPT ![u].pc = "start_loop", ![u].err = "-ENOMEM"]
                  /\ UNCHANGED <<kth, nr_running_ctxs>>
       ELSE /\ usr' = [usr EXCEPT ![u].pc = "start_loop", ![u].err = "-EBUSY"]
            /\ UNCHANGED <<kdamond, kdamond_stop, kth, nr_running_ctxs>>
    /\ UNCHANGED <<damon_lock, targets, has_target_valid, has_init_regions, has_callbacks, alive, ncalls, attr_vars, rgn_vars>>

StartCtx(u) ==
    /\ usr[u].pc = "start_ctx_cs"
    /\ __damon_start(u, usr[u].ctxs[usr[u].i])

\* damon_start(): mutex_unlock(&damon_lock); return err;
StartUnlock(u) ==
    /\ usr[u].pc = "start_loop"
    /\ usr[u].err # "0" \/ usr[u].i > Len(usr[u].ctxs)
    /\ damon_lock' = NoOwner
    /\ usr' = [usr EXCEPT ![u].pc = "idle",
                          ![u].started = IF usr[u].err = "0" THEN usr[u].ctxs ELSE <<>>,
                          ![u].started_pre = usr[u].pre]
    /\ UNCHANGED <<nr_running_ctxs, kdamond, kdamond_stop, kdamond_lock,
                   targets, has_target_valid, has_init_regions, has_callbacks, alive, kth, ncalls, attr_vars, rgn_vars>>

damon_start(u) ==
    \/ StartLock(u)
    \/ StartCheck(u)
    \/ StartCtxLock(u)
    \/ StartCtx(u)
    \/ StartUnlock(u)

\* A caller enters damon_stop(ctxs, nr_ctxs), as one of at most max calls.
CallStop(u, g, max) ==
    /\ usr[u].pc = "idle"
    /\ ncalls < max
    /\ ncalls' = ncalls + 1
    /\ usr' = [usr EXCEPT ![u] = [IdleUser EXCEPT !.pc = "stop", !.op = "stop",
                                     !.ctxs = g, !.started = usr[u].started,
                                     !.started_pre = usr[u].started_pre]]
    /\ UNCHANGED <<damon_lock, nr_running_ctxs, kdamond, kdamond_stop, kdamond_lock,
                   targets, has_target_valid, has_init_regions, has_callbacks, alive, kth, attr_vars, rgn_vars>>

\* __damon_stop(): mutex_lock(&ctx->kdamond_lock)
StopLock(u) ==
    /\ usr[u].pc = "stop"
    /\ kdamond_lock[usr[u].ctxs[usr[u].i]] = NoOwner
    /\ kdamond_lock' = [kdamond_lock EXCEPT ![usr[u].ctxs[usr[u].i]] = User(u)]
    /\ usr' = [usr EXCEPT ![u].pc = "stop_cs"]
    /\ UNCHANGED <<damon_lock, nr_running_ctxs, kdamond, kdamond_stop,
                   targets, has_target_valid, has_init_regions, has_callbacks, alive, kth, ncalls, attr_vars, rgn_vars>>

\* __damon_stop() with the bug that it sets the stop flag before it looks at
\* ctx->kdamond.
__damon_stop_flag_first(u, c) ==
    /\ kdamond_lock' = [kdamond_lock EXCEPT ![c] = NoOwner]
    /\ kdamond_stop' = [kdamond_stop EXCEPT ![c] = TRUE]
    /\ IF kdamond[c] # "NULL"
       THEN usr' = [usr EXCEPT ![u].pc = "stop_wait"]
       ELSE usr' = [usr EXCEPT ![u].pc = "idle", ![u].err = "-EPERM",
                               ![u].started = <<>>]
    /\ UNCHANGED <<damon_lock, nr_running_ctxs, kdamond,
                   targets, has_target_valid, has_init_regions, has_callbacks, alive, kth, ncalls, attr_vars, rgn_vars>>

\* __damon_stop() with kdamond_lock held, up to its mutex_unlock(): ask the
\* worker to stop, or return -EPERM (and damon_stop() returns it).
__damon_stop(u, c) ==
    /\ kdamond_lock' = [kdamond_lock EXCEPT ![c] = NoOwner]
    /\ IF kdamond[c] # "NULL"
       THEN /\ kdamond_stop' = [kdamond_stop EXCEPT ![c] = TRUE]
            /\ usr' = [usr EXCEPT ![u].pc = "stop_wait"]
       ELSE /\ kdamond_stop' = kdamond_stop
            /\ usr' = [usr EXCEPT ![u].pc = "idle", ![u].err = "-EPERM",
                                  ![u].started = <<>>]
    /\ UNCHANGED <<damon_lock, nr_running_ctxs, kdamond,
                   targets, has_target_valid, has_init_regions, has_callbacks, alive, kth, ncalls, attr_vars, rgn_vars>>

StopCtx(u) ==
    /\ usr[u].pc = "stop_cs"
    /\ __damon_stop(u, usr[u].ctxs[usr[u].i])

\* damon_kdamond_running(): mutex_lock(&ctx->kdamond_lock)
StopWaitLock(u) ==
    /\ usr[u].pc = "stop_wait"
    /\ kdamond_lock[usr[u].ctxs[usr[u].i]] = NoOwner
    /\ kdamond_lock' = [kdamond_lock EXCEPT ![usr[u].ctxs[usr[u].i]] = User(u)]
    /\ usr' = [usr EXCEPT ![u].pc = "stop_wait_cs"]
    /\ UNCHANGED <<damon_lock, nr_running_ctxs, kdamond, kdamond_stop,
                   targets, has_target_valid, has_init_regions, has_callbacks, alive, kth, ncalls, attr_vars, rgn_vars>>

\* The wait of __damon_stop() with the bug that it returns 0 without looking at
\* damon_kdamond_running().
StopNoWait(u, c) ==
    /\ kdamond_lock' = [kdamond_lock EXCEPT ![c] = NoOwner]
    /\ IF usr[u].i < Len(usr[u].ctxs)
       THEN usr' = [usr EXCEPT ![u].pc = "stop", ![u].i = @ + 1]
       ELSE usr' = [usr EXCEPT ![u].pc = "idle", ![u].i = @ + 1,
                               ![u].started = <<>>]
    /\ UNCHANGED <<damon_lock, nr_running_ctxs, kdamond, kdamond_stop,
                   targets, has_target_valid, has_init_regions, has_callbacks, alive, kth, ncalls, attr_vars, rgn_vars>>

\* while (damon_kdamond_running(ctx)) usleep_range(); return 0; and the loop of
\* damon_stop() that goes on to the next context or returns 0.
StopWait(u, c) ==
    /\ kdamond_lock' = [kdamond_lock EXCEPT ![c] = NoOwner]
    /\ IF damon_kdamond_running(c)
       THEN usr' = [usr EXCEPT ![u].pc = "stop_wait"]
       ELSE IF usr[u].i < Len(usr[u].ctxs)
            THEN usr' = [usr EXCEPT ![u].pc = "stop", ![u].i = @ + 1]
            ELSE usr' = [usr EXCEPT ![u].pc = "idle", ![u].i = @ + 1,
                                    ![u].started = <<>>]
    /\ UNCHANGED <<damon_lock, nr_running_ctxs, kdamond, kdamond_stop,
                   targets, has_target_valid, has_init_regions, has_callbacks, alive, kth, ncalls, attr_vars, rgn_vars>>

StopWaitCtx(u) ==
    /\ usr[u].pc = "stop_wait_cs"
    /\ StopWait(u, usr[u].ctxs[usr[u].i])

damon_stop(u) ==
    \/ StopLock(u)
    \/ StopCtx(u)
    \/ StopWaitLock(u)
    \/ StopWaitCtx(u)

\* One caller starts and stops the context "c1".
Next ==
    \/ CallStart("u1", <<"c1">>, MaxCalls)
    \/ CallStop("u1", <<"c1">>, MaxCalls)
    \/ damon_start("u1")
    \/ damon_stop("u1")
    \/ \E c \in Ctxs, k \in ThreadIds : kdamond_fn(c, k)
    \/ \E t \in AllTargetIds : TargetDies(t)

Spec == Init /\ [][Next]_vars

\* Two callers start and stop groups of contexts at the same time: "c1" has a
\* target that stays valid, "c2" has no target (its worker leaves at once) and
\* callbacks.
InitGroup ==
    InitWith([c1 |-> <<1>>, c2 |-> <<>>], [c \in Ctxs |-> TRUE],
             [c \in Ctxs |-> FALSE], [c \in Ctxs |-> c = "c2"])

NextGroup ==
    \/ \E u \in Callers, g \in Groups : CallStart(u, g, MaxGroupCalls)
    \/ \E u \in Callers, g \in Groups : CallStop(u, g, MaxGroupCalls)
    \/ \E u \in Callers : damon_start(u)
    \/ \E u \in Callers : damon_stop(u)
    \/ \E c \in Ctxs, k \in ThreadIds : kdamond_fn(c, k)

SpecGroup == InitGroup /\ [][NextGroup]_vars

(* ------------------------------------------------------------------ *)
(* damon_set_targets() of mm/damon/core.c                               *)
(* ------------------------------------------------------------------ *)

\* Largest number of ids a damon_set_targets() call of the model is given.
MaxIds == 3

\* The id arrays of at most n ids.
IdSeqs(n) == UNION {[1..m -> AllTargetIds] : m \in 0..n}

\* damon_set_targets() with the bug that the targets the context has are kept
\* and the new ones are added after them.
damon_set_targets_keeping(c, ids, nfail) ==
    LET built == IF nfail = 0 THEN Len(ids) ELSE nfail - 1
    IN /\ targets' = [targets EXCEPT ![c] =
             @ \o [i \in 1..built |-> damon_new_target(ids[i])]]
       /\ tgt_call' = [called |-> TRUE, ctx |-> c, ids |-> ids, built |-> built,
                       ret |-> IF nfail = 0 THEN "0" ELSE "-ENOMEM"]
       /\ UNCHANGED <<damon_lock, nr_running_ctxs, kdamond, kdamond_stop, kdamond_lock,
                      has_target_valid, has_init_regions, has_callbacks, alive, kth, usr,
                      ncalls, attr_vars, tasks, rop, nops, mon_vars>>

\* damon_set_targets(ctx, ids, nr_ids): every target of the context is
\* destroyed, then a target is built and added for each id in turn; the
\* kmalloc() of damon_new_target() fails for the nfail-th id (for none when
\* nfail is 0), and then -ENOMEM is returned at once.
damon_set_targets(c, ids, nfail) ==
    LET built == IF nfail = 0 THEN Len(ids) ELSE nfail - 1
    IN /\ targets' = [targets EXCEPT ![c] =
             [i \in 1..built |-> damon_new_target(ids[i])]]
       /\ tgt_call' = [called |-> TRUE, ctx |-> c, ids |-> ids, built |-> built,
                       ret |-> IF nfail = 0 THEN "0" ELSE "-ENOMEM"]
       /\ UNCHANGED <<damon_lock, nr_running_ctxs, kdamond, kdamond_stop, kdamond_lock,
                      has_target_valid, has_init_regions, has_callbacks, alive, kth, usr,
                      ncalls, attr_vars, tasks, rop, nops, mon_vars>>

\* The contexts have no worker; "c1" has targets whose regions its user added
\* with damon_add_region(), or none.
InitTargets ==
    \E tgts \in {<<>>,
                  <<[damon_new_target(1) EXCEPT !.regions = InitRegions]>>,
                  <<[damon_new_target(2) EXCEPT !.regions = InitRegions],
                    damon_new_target(1)>>} :
        InitCtxs([c \in Ctxs |-> IF c = "c1" THEN tgts ELSE <<>>],
                 [c \in Ctxs |-> TRUE], [c \in Ctxs |-> TRUE], [c \in Ctxs |-> TRUE])

\* damon_set_targets() is called again and again while no worker runs.
NextTargets ==
    \E c \in Ctxs, ids \in IdSeqs(MaxIds) : \E nfail \in 0..Len(ids) :
        damon_set_targets(c, ids, nfail)

SpecTargets == InitTargets /\ [][NextTargets]_vars

\* The targets damon_set_targets() builds for the first n of ids.
FreshTargets(ids, n) == [i \in 1..n |-> [id |-> ids[i], regions |-> <<>>]]

\* C12: after damon_set_targets(ctx, ids) the context has none of its earlier
\* targets; on return 0 its targets are those of ids, in order, each without
\* regions; when an allocation fails it returns -ENOMEM and the targets are
\* those of the ids before the one whose allocation failed.
C12_SetTargetsReplaces ==
    /\ [](tgt_call.called =>
            /\ tgt_call.ret \in {"0", "-ENOMEM"}
            /\ tgt_call.ret = "0" =>
                  targets[tgt_call.ctx] = FreshTargets(tgt_call.ids, Len(tgt_call.ids))
            /\ tgt_call.ret = "-ENOMEM" =>
                  /\ Len(targets[tgt_call.ctx]) < Len(tgt_call.ids)
                  /\ targets[tgt_call.ctx] =
                        FreshTargets(tgt_call.ids, Len(targets[tgt_call.ctx])))
    /\ [][\A c \in Ctxs : targets'[c] # targets[c] => tgt_call'.ctx = c]_vars

\* damon_set_targets() failed on the third id it was given and left the two
\* targets built before it.
C12_Witness ==
    /\ tgt_call.called /\ tgt_call.ret = "-ENOMEM" /\ tgt_call.ctx = "c1"
    /\ Len(targets["c1"]) = 2
    /\ \A c \in Ctxs : NrRegionsOf(c) = 0

(* ------------------------------------------------------------------ *)
(* damon_set_attrs() of mm/damon.c                                      *)
(* ------------------------------------------------------------------ *)

\* Largest number of regions a damon_set_attrs() call of the model asks for.
MaxNrRegs == 5

\* The sampling intervals a damon_set_attrs() call of the model asks for.
SampleInts == {1000, 5000}

\* damon_set_attrs(ctx, sample_int, aggr_int, regions_update_int, min_nr_reg,
\* max_nr_reg) on damon_user_ctx: min_nr_reg is compared with the
\* max_nr_regions the context has, and then all five values are stored.
damon_set_attrs(sample_int, aggr_int, regions_update_int, min_nr_reg, max_nr_reg) ==
    /\ LET args == [sample_interval |-> sample_int, aggr_interval |-> aggr_int,
                    regions_update_interval |-> regions_update_int,
                    min_nr_regions |-> min_nr_reg, max_nr_regions |-> max_nr_reg]
           ret == IF min_nr_reg < 3 THEN "-EINVAL"
                  ELSE IF min_nr_reg >= attrs.max_nr_regions THEN "-EINVAL"
                  ELSE "0"
       IN /\ attrs' = IF ret = "0" THEN args ELSE attrs
          /\ attr_call' = [called |-> TRUE, args |-> args, ret |-> ret]
    /\ UNCHANGED <<core_vars, rgn_vars>>

\* damon_set_attrs() is called again and again while no worker runs.
NextAttrs ==
    \E s \in SampleInts, mn \in 2..MaxNrRegs, mx \in 2..MaxNrRegs :
        damon_set_attrs(s, damon_user_ctx.aggr_interval,
                        damon_user_ctx.regions_update_interval, mn, mx)

SpecAttrs == Init /\ [][NextAttrs]_vars

\* C10: damon_set_attrs() returns 0 and stores the five values exactly when
\* min_nr_reg >= 3 and min_nr_reg <= max_nr_reg, the maximum of the same call,
\* and else returns -EINVAL and stores nothing.
C10_SetAttrsIffMinLeMax ==
    attr_call.called =>
        /\ (attr_call.ret = "0") <=>
              /\ attr_call.args.min_nr_regions >= 3
              /\ attr_call.args.min_nr_regions <= attr_call.args.max_nr_regions
        /\ attr_call.ret = "0" => attrs = attr_call.args
        /\ attr_call.ret # "0" => attr_call.ret = "-EINVAL"

\* C11: after any sequence of damon_set_attrs() calls on damon_user_ctx, whose
\* initial attributes satisfy it, min_nr_regions >= 3 and
\* max_nr_regions >= min_nr_regions.
C11_AttrsKeepRegionBounds ==
    /\ attrs.min_nr_regions >= 3
    /\ attrs.max_nr_regions >= attrs.min_nr_regions

(* ------------------------------------------------------------------ *)
(* The regions of mm/damon.c: initialisation, merge, split, re-sync      *)
(* ------------------------------------------------------------------ *)

\* Number of steps taken on the regions of the tasks.
MaxRegionOps == 4

\* Largest threshold the merge step of the model is given.
MaxThres == 1

\* damon_new_region() of mm/damon.c: sampling_addr, age and last_nr_accesses
\* are left as kmalloc() gave them.
damon_new_vm_region(vm_start, vm_end) ==
    [vm_start |-> vm_start, vm_end |-> vm_end, sampling_addr |-> Uninit,
     nr_accesses |-> 0, age |-> Uninit, last_nr_accesses |-> Uninit]

damon_new_task(pid) == [pid |-> pid, regions |-> <<>>]

nr_damon_regions(t) == Len(t.regions)

\* nr_regions += nr_damon_regions(t) over the tasks ts.
TotalRegions(ts) == SumSeq([i \in DOMAIN ts |-> nr_damon_regions(ts[i])])

\* Number of regions of the tasks before the i-th.
RegionsBefore(ts, i) == TotalRegions(SubSeq(ts, 1, i - 1))

sz_damon_region(r) == r.vm_end - r.vm_start

\* damon_merge_two_regions() with the bug that l is not extended over r.
damon_merge_two_regions_short(l, r) ==
    [l EXCEPT !.nr_accesses = (l.nr_accesses * sz_damon_region(l) +
                               r.nr_accesses * sz_damon_region(r)) \div
                              (sz_damon_region(l) + sz_damon_region(r))]

\* damon_merge_two_regions() with the bug that the sizes of the regions do not
\* weigh their access counts.
damon_merge_two_regions_unweighted(l, r) ==
    [l EXCEPT !.nr_accesses = (l.nr_accesses + r.nr_accesses) \div 2,
              !.vm_end = r.vm_end]

\* The region l becomes when r is merged into it (r is destroyed).
damon_merge_two_regions(l, r) ==
    [l EXCEPT !.nr_accesses = (l.nr_accesses * sz_damon_region(l) +
                               r.nr_accesses * sz_damon_region(r)) \div
                              (sz_damon_region(l) + sz_damon_region(r)),
              !.vm_end = r.vm_end]

\* diff_of() with the bug that a smaller first argument gives 0.
diff_of_one_sided(a, b) == IF a > b THEN a - b ELSE 0

diff_of(a, b) == IF a > b THEN a - b ELSE b - a

\* The loop of a damon_merge_regions_of() that also merges regions that do
\* not touch.
RECURSIVE MergeLoopAnyGap(_, _, _)
MergeLoopAnyGap(kept, rest, thres) ==
    IF rest = <<>> THEN kept
    ELSE LET r == Head(rest)
             prev == kept[Len(kept)]
         IN IF kept = <<>> \/ diff_of(prev.nr_accesses, r.nr_accesses) > thres
            THEN MergeLoopAnyGap(Append(kept, r), Tail(rest), thres)
            ELSE MergeLoopAnyGap([kept EXCEPT ![Len(kept)] = damon_merge_two_regions(prev, r)],
                                 Tail(rest), thres)

\* The loop of a damon_merge_regions_of() that merges only regions whose access
\* counts differ by less than the threshold.
RECURSIVE MergeLoopStrict(_, _, _)
MergeLoopStrict(kept, rest, thres) ==
    IF rest = <<>> THEN kept
    ELSE LET r == Head(rest)
             prev == kept[Len(kept)]
         IN IF kept = <<>> \/ prev.vm_end # r.vm_start
                \/ diff_of(prev.nr_accesses, r.nr_accesses) >= thres
            THEN MergeLoopStrict(Append(kept, r), Tail(rest), thres)
            ELSE MergeLoopStrict([kept EXCEPT ![Len(kept)] = damon_merge_two_regions(prev, r)],
                                 Tail(rest), thres)

\* The loop of damon_merge_regions_of(): kept are the regions passed, prev the
\* last of them; rest are the regions to come.
RECURSIVE MergeLoop(_, _, _)
MergeLoop(kept, rest, thres) ==
    IF rest = <<>> THEN kept
    ELSE LET r == Head(rest)
             prev == kept[Len(kept)]
         IN IF kept = <<>> \/ prev.vm_end # r.vm_start
                \/ diff_of(prev.nr_accesses, r.nr_accesses) > thres
            THEN MergeLoop(Append(kept, r), Tail(rest), thres)
            ELSE MergeLoop([kept EXCEPT ![Len(kept)] = damon_merge_two_regions(prev, r)],
                           Tail(rest), thres)

damon_merge_regions_of(regions, thres) == MergeLoop(<<>>, regions, thres)

\* The two regions r becomes when it is split sz_r after its start.
damon_split_region_at(r, sz_r) ==
    <<[r EXCEPT !.vm_end = r.vm_start + sz_r],
      damon_new_vm_region(r.vm_start + sz_r, r.vm_end)>>

\* The numbers prandom_u32_state() gives in the model.
Rands == {0, 4, 8}

\* damon_split_regions_of(): rnd[j] is the random number drawn for the j-th
\* region of the list.
RECURSIVE damon_split_regions_of(_, _)
damon_split_regions_of(regions, rnd) ==
    IF regions = <<>> THEN <<>>
    ELSE LET r == Head(regions)
             sz_left_region == (((Head(rnd) % 9) + 1) * (r.vm_end - r.vm_start)) \div 10
         IN (IF sz_left_region = 0 THEN <<r>> ELSE damon_split_region_at(r, sz_left_region))
            \o damon_split_regions_of(Tail(regions), Tail(rnd))

\* The loop of damon_split_region_evenly(): the regions made from start on.
RECURSIVE EvenPieces(_, _, _)
EvenPieces(start, sz_piece, orig_end) ==
    IF start + sz_piece <= orig_end
    THEN <<damon_new_vm_region(start, start + sz_piece)>>
         \o EvenPieces(start + sz_piece, sz_piece, orig_end)
    ELSE <<>>

\* damon_split_region_evenly(): what it returns, and the regions that stand in
\* the place of r after it.
damon_split_region_evenly(r, nr_pieces) ==
    LET orig_end == r.vm_end
        sz_orig == r.vm_end - r.vm_start
        sz_piece == sz_orig \div nr_pieces
        n == EvenPieces(r.vm_start + sz_piece, sz_piece, orig_end)
    IN IF nr_pieces = 0 THEN [ret |-> "-EINVAL", regions |-> <<r>>]
       ELSE IF sz_piece = 0 THEN [ret |-> "-EINVAL", regions |-> <<r>>]
       ELSE [ret |-> "0",
             regions |-> <<[r EXCEPT !.vm_end = r.vm_start + sz_piece]>> \o
                         (IF n = <<>> THEN <<>>
                          ELSE [n EXCEPT ![Len(n)].vm_end = orig_end])]

\* What damon_three_regions_of() gives when it fails.
NoRegions == <<>>

\* damon_init_regions_of(): the regions of a task without regions, bregions
\* being the three regions damon_three_regions_of() found, or NoRegions.
damon_init_regions_of(min_nr_regions, bregions) ==
    IF bregions = NoRegions THEN <<>>
    ELSE <<damon_new_vm_region(bregions[1].start, bregions[1].end)>>
         \o damon_split_region_evenly(
               damon_new_vm_region(bregions[2].start, bregions[2].end),
               min_nr_regions - 2).regions
         \o <<damon_new_vm_region(bregions[3].start, bregions[3].end)>>

damon_intersect(r, re) == ~(r.vm_end <= re.start \/ re.end <= r.vm_start)

\* The first loop of a damon_apply_three_regions() that removes no region.
SelectRegionsKeepAll(regions, bregions) == regions

\* The first loop of damon_apply_three_regions(): the regions it leaves.
SelectRegions(regions, bregions) ==
    SelectSeq(regions, LAMBDA r : \E i \in 1..3 : damon_intersect(r, bregions[i]))

\* The second loop of damon_apply_three_regions() with the bug that a new
\* region is added at the tail of the list.
ApplyBigRegionAtTail(regions, br) ==
    LET hits == {j \in DOMAIN regions : damon_intersect(regions[j], br)}
        first == CHOOSE j \in hits : \A m \in hits : j <= m
        last == CHOOSE j \in hits : \A m \in hits : j >= m
    IN IF hits = {}
       THEN Append(regions, damon_new_vm_region(br.start, br.end))
       ELSE [j \in DOMAIN regions |->
               [regions[j] EXCEPT
                  !.vm_start = IF j = first THEN br.start ELSE @,
                  !.vm_end = IF j = last THEN br.end ELSE @]]

\* The second loop of damon_apply_three_regions() for the big region br.
ApplyBigRegion(regions, br) ==
    LET stops == {j \in DOMAIN regions : regions[j].vm_start >= br.end}
        brk == IF stops = {} THEN Len(regions) + 1
               ELSE CHOOSE j \in stops : \A m \in stops : j <= m
        hits == {j \in 1..(brk - 1) : damon_intersect(regions[j], br)}
        first == CHOOSE j \in hits : \A m \in hits : j <= m
        last == CHOOSE j \in hits : \A m \in hits : j >= m
    IN IF hits = {}
       THEN SubSeq(regions, 1, brk - 1) \o <<damon_new_vm_region(br.start, br.end)>>
            \o SubSeq(regions, brk, Len(regions))
       ELSE [j \in DOMAIN regions |->
               [regions[j] EXCEPT
                  !.vm_start = IF j = first THEN br.start ELSE @,
                  !.vm_end = IF j = last THEN br.end ELSE @]]

damon_apply_three_regions(regions, bregions) ==
    ApplyBigRegion(ApplyBigRegion(ApplyBigRegion(SelectRegions(regions, bregions),
                                                 bregions[1]), bregions[2]), bregions[3])

\* The three regions damon_three_regions_of() finds in the address spaces of
\* the model.
Layouts ==
    {<<[start |-> 0, end |-> 2], [start |-> 4, end |-> 10], [start |-> 12, end |-> 14]>>,
     <<[start |-> 1, end |-> 5], [start |-> 7, end |-> 9], [start |-> 11, end |-> 15]>>,
     <<[start |-> 0, end |-> 1], [start |-> 2, end |-> 3], [start |-> 9, end |-> 16]>>}

\* A step on the regions of the tasks that leaves them as ts.
RegionStep(op, arg, ts) ==
    /\ nops < MaxRegionOps
    /\ nops' = nops + 1
    /\ tasks' = ts
    /\ rop' = [op |-> op, pre |-> tasks, arg |-> arg]
    /\ UNCHANGED <<core_vars, attr_vars, tgt_call, mon_vars>>

\* kdamond_init_regions(): damon_init_regions_of() for every task, at the start
\* of kdamond_fn().
kdamond_init_regions(br) ==
    /\ rop.op = "none"
    /\ RegionStep("init", br,
          [i \in DOMAIN tasks |->
              [tasks[i] EXCEPT !.regions =
                  damon_init_regions_of(attrs.min_nr_regions, br[i])]])

\* The sets of regions, numbered through the tasks, whose sampled page a
\* kdamond_check_accesses() of the model finds accessed.
AccessPatterns(n) ==
    {{}, 1..n, {j \in 1..n : j % 2 = 1}, {j \in 1..n : j % 2 = 0}}

\* kdamond_check_accesses(): nr_accesses++ for the regions found accessed (the
\* model stops counting at MaxNrAccesses).
kdamond_check_accesses(accessed) ==
    RegionStep("check", 0,
       [i \in DOMAIN tasks |->
           [tasks[i] EXCEPT !.regions =
               [j \in DOMAIN tasks[i].regions |->
                   IF RegionsBefore(tasks, i) + j \in accessed
                      /\ tasks[i].regions[j].nr_accesses < MaxNrAccesses
                   THEN [tasks[i].regions[j] EXCEPT !.nr_accesses = @ + 1]
                   ELSE tasks[i].regions[j]]]])

kdamond_merge_regions(threshold) ==
    RegionStep("merge", threshold,
       [i \in DOMAIN tasks |->
           [tasks[i] EXCEPT !.regions = damon_merge_regions_of(@, threshold)]])

\* kdamond_reset_aggregated() of mm/damon.c: r->nr_accesses = 0.
kdamond_reset_nr_accesses ==
    RegionStep("reset", 0,
       [i \in DOMAIN tasks |->
           [tasks[i] EXCEPT !.regions =
               [j \in DOMAIN tasks[i].regions |->
                   [tasks[i].regions[j] EXCEPT !.nr_accesses = 0]]]])

\* A split step that skips only above max_nr_regions, not above its half.
SplitSkipsLate(nr_regions, max_nr_regions) == nr_regions > max_nr_regions

\* A split step that skips already at half of max_nr_regions.
SplitSkipsEarly(nr_regions, max_nr_regions) == nr_regions >= max_nr_regions \div 2

\* The early return of kdamond_split_regions(): nr_regions is the number of
\* regions of all tasks together.
SplitSkips(nr_regions, max_nr_regions) == nr_regions > max_nr_regions \div 2

\* How many random numbers the next kdamond_split_regions() draws.
NrRandsDrawn ==
    IF SplitSkips(TotalRegions(tasks), attrs.max_nr_regions) THEN 0
    ELSE TotalRegions(tasks)

\* kdamond_split_regions(): rnd holds the random numbers drawn, one for each
\* region in the order of the tasks.
kdamond_split_regions(rnd) ==
    RegionStep("split", 0,
       IF SplitSkips(TotalRegions(tasks), attrs.max_nr_regions)
       THEN tasks
       ELSE [i \in DOMAIN tasks |->
               [tasks[i] EXCEPT !.regions =
                   damon_split_regions_of(@,
                      SubSeq(rnd, RegionsBefore(tasks, i) + 1,
                             RegionsBefore(tasks, i) + nr_damon_regions(tasks[i])))]])

\* A kdamond_update_regions() that leaves the loop at the first task whose
\* three regions are not found.
kdamond_update_regions_until_failure(br) ==
    RegionStep("update", br,
       [i \in DOMAIN tasks |->
           IF \E m \in 1..i : br[m] = NoRegions THEN tasks[i]
           ELSE [tasks[i] EXCEPT !.regions = damon_apply_three_regions(@, br[i])]])

\* kdamond_update_regions(): damon_apply_three_regions() for every task whose
\* three regions damon_three_regions_of() finds.
kdamond_update_regions(br) ==
    RegionStep("update", br,
       [i \in DOMAIN tasks |->
           IF br[i] = NoRegions THEN tasks[i]
           ELSE [tasks[i] EXCEPT !.regions = damon_apply_three_regions(@, br[i])]])

\* The context of mm/damon.c has the given region bounds and tasks without
\* regions.
InitTasksWith(min_nr, max_nr, pids, vmas) ==
    /\ InitCore([c \in Ctxs |-> <<>>], [c \in Ctxs |-> TRUE], [c \in Ctxs |-> TRUE],
                [c \in Ctxs |-> TRUE])
    /\ attrs = [damon_user_ctx EXCEPT !.min_nr_regions = min_nr, !.max_nr_regions = max_nr]
    /\ attr_call = NoAttrCall
    /\ tgt_call = NoTargetsCall
    /\ tasks = [i \in DOMAIN pids |-> damon_new_task(pids[i])]
    /\ rop = NoRegionOp
    /\ nops = 0
    /\ InitMonWith(vmas)

InitTasks(min_nr, max_nr, pids) == InitTasksWith(min_nr, max_nr, pids, <<>>)

InitRgn ==
    \E nrs \in {<<3, 6>>, <<4, 6>>, <<3, 4>>}, pids \in {<<1>>, <<1, 2>>} :
        InitTasks(nrs[1], nrs[2], pids)

NextRegions ==
    \/ \E br \in [DOMAIN tasks -> Layouts \cup {NoRegions}] : kdamond_init_regions(br)
    \/ \E a \in AccessPatterns(TotalRegions(tasks)) : kdamond_check_accesses(a)
    \/ \E th \in 0..MaxThres : kdamond_merge_regions(th)
    \/ kdamond_reset_nr_accesses
    \/ \E rnd \in [1..NrRandsDrawn -> Rands] : kdamond_split_regions(rnd)
    \/ \E br \in [DOMAIN tasks -> Layouts \cup {NoRegions}] : kdamond_update_regions(br)

SpecRegions == InitRgn /\ [][NextRegions]_vars

\* The regions are in address order and no two of them overlap.
Ordered(regions) ==
    /\ \A j \in DOMAIN regions : regions[j].vm_start < regions[j].vm_end
    /\ \A j \in 1..(Len(regions) - 1) :
          /\ regions[j].vm_start < regions[j + 1].vm_start
          /\ regions[j].vm_end <= regions[j + 1].vm_start

\* C13: after the initialisation and any sequence of merge steps, split steps
\* and three-region re-syncs (and access checks and resets between them), the
\* regions of every task have strictly increasing start addresses and are
\* pairwise disjoint, each from its start to a later end.
C13_RegionsOrderedDisjoint ==
    \A i \in DOMAIN tasks : Ordered(tasks[i].regions)

\* A re-sync has cut and moved the regions of a task that had been split.
C13_Witness ==
    /\ rop.op = "update"
    /\ \E i \in DOMAIN tasks :
          /\ Len(rop.pre[i].regions) > 4
          /\ tasks[i].regions # rop.pre[i].regions

\* The addresses the regions cover.
Covered(regions) ==
    UNION {regions[j].vm_start..(regions[j].vm_end - 1) : j \in DOMAIN regions}

\* C14: a merge step and a split step leave the set of addresses the regions of
\* each task cover as it was, so any sequence of them does.
C14_MergeSplitKeepCoverage ==
    rop.op \in {"merge", "split"} =>
        /\ DOMAIN tasks = DOMAIN rop.pre
        /\ \A i \in DOMAIN tasks :
              Covered(tasks[i].regions) = Covered(rop.pre[i].regions)

\* A merge step has merged regions that an earlier split step had made.
C14_Witness ==
    /\ rop.op = "merge"
    /\ TotalRegions(tasks) < TotalRegions(rop.pre)
    /\ \E i \in DOMAIN tasks : Len(rop.pre[i].regions) > attrs.min_nr_regions

\* C15: after every split step the number of regions of all tasks together is
\* at most max_nr_regions.
C15_SplitKeepsMaxNrRegions ==
    rop.op = "split" => TotalRegions(tasks) <= attrs.max_nr_regions

\* The region q lies in the region r.
Within(q, r) == r.vm_start <= q.vm_start /\ q.vm_end <= r.vm_end

\* The region r of a merge step's result is made of regions of pre that touch
\* one another and all have the nr_accesses of r.
MergedOfEquals(r, pre) ==
    LET parts == SelectSeq(pre, LAMBDA q : Within(q, r))
    IN /\ parts # <<>>
       /\ parts[1].vm_start = r.vm_start
       /\ parts[Len(parts)].vm_end = r.vm_end
       /\ \A j \in 1..(Len(parts) - 1) : parts[j].vm_end = parts[j + 1].vm_start
       /\ \A j \in DOMAIN parts : parts[j].nr_accesses = r.nr_accesses

\* C16: a merge step with threshold 0 merges only regions that touch and have
\* equal nr_accesses, and a second merge step with threshold 0 on its result
\* changes no region.
C16_MergeIdempotent ==
    (rop.op = "merge" /\ rop.arg = 0) =>
        \A i \in DOMAIN tasks :
            /\ \A j \in DOMAIN tasks[i].regions :
                  MergedOfEquals(tasks[i].regions[j], rop.pre[i].regions)
            /\ \A j \in DOMAIN rop.pre[i].regions :
                  \E m \in DOMAIN tasks[i].regions :
                      Within(rop.pre[i].regions[j], tasks[i].regions[m])
            /\ damon_merge_regions_of(tasks[i].regions, 0) = tasks[i].regions

\* A merge step with threshold 0 has merged some regions and left two that
\* touch with different nr_accesses.
C16_Witness ==
    /\ rop.op = "merge" /\ rop.arg = 0
    /\ TotalRegions(tasks) < TotalRegions(rop.pre)
    /\ \E i \in DOMAIN tasks : \E j \in 1..(Len(tasks[i].regions) - 1) :
          /\ tasks[i].regions[j].vm_end = tasks[i].regions[j + 1].vm_start
          /\ tasks[i].regions[j].nr_accesses # tasks[i].regions[j + 1].nr_accesses

\* C17: a split step that finds more than max_nr_regions / 2 regions in all
\* tasks together changes nothing.
C17_SplitSkipsAboveHalf ==
    (rop.op = "split" /\ TotalRegions(rop.pre) > attrs.max_nr_regions \div 2) =>
        tasks = rop.pre

\* A split step was skipped although splitting would have kept the number of
\* regions within max_nr_regions.
C17_Witness ==
    /\ rop.op = "split"
    /\ TotalRegions(rop.pre) > attrs.max_nr_regions \div 2
    /\ TotalRegions(rop.pre) < attrs.max_nr_regions
    /\ tasks = rop.pre

\* A context with max_nr_regions = 10 whose tasks have the given numbers of
\* regions, each of ten address units and each touching the one before it: the
\* state after earlier splits and merges of one mapped area per task.
InitGate ==
    \E ns \in {<<4>>, <<5>>, <<6>>, <<7>>, <<3, 2>>, <<3, 3>>, <<3, 4>>} :
        /\ InitCore([c \in Ctxs |-> <<>>], [c \in Ctxs |-> TRUE],
                    [c \in Ctxs |-> TRUE], [c \in Ctxs |-> TRUE])
        /\ attrs = [damon_user_ctx EXCEPT !.min_nr_regions = 3, !.max_nr_regions = 10]
        /\ attr_call = NoAttrCall
        /\ tgt_call = NoTargetsCall
        /\ tasks = [i \in DOMAIN ns |->
                       [damon_new_task(i) EXCEPT !.regions =
                           [j \in 1..ns[i] |->
                               damon_new_vm_region(10 * (j - 1), 10 * j)]]]
        /\ rop = NoRegionOp
        /\ nops = 0
        /\ InitMon

NextGate == \E rnd \in [1..NrRandsDrawn -> Rands] : kdamond_split_regions(rnd)

\* Split steps alone, from a given number of regions.
SpecGate == InitGate /\ [][NextGate]_vars

\* Every region is large enough for every random number to cut it.
AllSplittable(ts) ==
    \A i \in DOMAIN ts : \A j \in DOMAIN ts[i].regions :
        sz_damon_region(ts[i].regions[j]) >= 10

\* C18 as it is stated: with max_nr_regions = 10 a split step that finds 6
\* regions splits them, and one that finds 7 regions changes nothing.
C18_SplitRunsAtSix ==
    (rop.op = "split" /\ attrs.max_nr_regions = 10 /\ AllSplittable(rop.pre)) =>
        /\ TotalRegions(rop.pre) = 6 => TotalRegions(tasks) = 12
        /\ TotalRegions(rop.pre) = 7 => tasks = rop.pre

\* C18 as the code has it: with max_nr_regions = 10 a split step that finds at
\* most 5 regions splits every one of them, and one that finds 6 or 7 regions
\* changes nothing.
C18_SplitRunsUpToFive ==
    (rop.op = "split" /\ attrs.max_nr_regions = 10 /\ AllSplittable(rop.pre)) =>
        /\ TotalRegions(rop.pre) <= 5 => TotalRegions(tasks) = 2 * TotalRegions(rop.pre)
        /\ TotalRegions(rop.pre) \in {6, 7} => tasks = rop.pre

\* A split step found 5 regions with max_nr_regions = 10 and made 10 of them.
C18_Witness ==
    /\ rop.op = "split"
    /\ attrs.max_nr_regions = 10
    /\ TotalRegions(rop.pre) = 5
    /\ TotalRegions(tasks) = 10

\* Sizes and access counts of the regions that are merged.
MergeSizes == {1, 3, 4096, 8192}

MergeCounts == {0, 1, 10, 12, 15}

\* A region of the given size and access count that starts at vm_start.
RegionWith(vm_start, sz, nr) ==
    [damon_new_vm_region(vm_start, vm_start + sz) EXCEPT !.nr_accesses = nr]

\* One task whose first two regions touch, with or without a third region
\* that touches the second.
InitMerge ==
    \E szl \in MergeSizes, szr \in MergeSizes, a \in MergeCounts, b \in MergeCounts,
       third \in BOOLEAN :
        /\ InitCore([c \in Ctxs |-> <<>>], [c \in Ctxs |-> TRUE],
                    [c \in Ctxs |-> TRUE], [c \in Ctxs |-> TRUE])
        /\ attrs = damon_user_ctx
        /\ attr_call = NoAttrCall
        /\ tgt_call = NoTargetsCall
        /\ tasks = <<[damon_new_task(1) EXCEPT !.regions =
                        <<RegionWith(0, szl, a), RegionWith(szl, szr, b)>> \o
                        (IF third THEN <<RegionWith(szl + szr, 4096, 1)>> ELSE <<>>)]>>
        /\ rop = NoRegionOp
        /\ nops = 0
        /\ InitMon

\* damon_merge_two_regions(prev, r) on the first two regions of the task, as
\* damon_merge_regions_of() calls it when they touch: r leaves the list.
MergeTwoRegions ==
    /\ Len(tasks[1].regions) >= 2
    /\ tasks[1].regions[1].vm_end = tasks[1].regions[2].vm_start
    /\ RegionStep("merge_two", 0,
          [tasks EXCEPT ![1].regions =
              <<damon_merge_two_regions(tasks[1].regions[1], tasks[1].regions[2])>>
              \o SubSeq(tasks[1].regions, 3, Len(tasks[1].regions))])

NextMerge == MergeTwoRegions

\* Merges of the first two regions of a task.
SpecMerge == InitMerge /\ [][NextMerge]_vars

\* floor(n / d) for n >= 0 and d > 0, by its defining inequalities.
Floor(n, d) == CHOOSE q \in 0..n : q * d <= n /\ n < (q + 1) * d

\* C19: merging a region into the touching region before it gives that region
\* the size-weighted average of the two access counts, rounded down, extends it
\* to the end of the merged region and removes the merged region from the list;
\* regions of equal size get floor((a + b) / 2), and [0, 0x1000) with 10
\* accesses merged with [0x1000, 0x3000) with 12 accesses is [0, 0x3000) with 11.
C19_MergeWeightedAverage ==
    rop.op = "merge_two" =>
        LET before == rop.pre[1].regions
            after == tasks[1].regions
            prev == before[1]
            cur == before[2]
            szp == prev.vm_end - prev.vm_start
            szc == cur.vm_end - cur.vm_start
        IN /\ after[1].nr_accesses =
                  Floor(prev.nr_accesses * szp + cur.nr_accesses * szc, szp + szc)
           /\ after[1].vm_start = prev.vm_start
           /\ after[1].vm_end = cur.vm_end
           /\ Len(after) = Len(before) - 1
           /\ \A j \in 2..Len(after) : after[j] = before[j + 1]
           /\ szp = szc =>
                  after[1].nr_accesses = Floor(prev.nr_accesses + cur.nr_accesses, 2)
           /\ (/\ prev = RegionWith(0, 4096, 10)
               /\ cur = RegionWith(4096, 8192, 12))
                  => after[1] = RegionWith(0, 12288, 11)

\* [0, 0x1000) with 10 accesses and [0x1000, 0x3000) with 12 accesses were
\* merged.
C19_Witness ==
    /\ rop.op = "merge_two"
    /\ rop.pre[1].regions = <<RegionWith(0, 4096, 10), RegionWith(4096, 8192, 12)>>
    /\ tasks[1].regions = <<RegionWith(0, 12288, 11)>>

\* Largest min_nr_regions and largest size of the middle big region the
\* initialisation of the regions is checked for.
MaxMinNrRegions == 8

MaxMiddle == 20

\* The three big regions of an address space whose middle one has size m.
LayoutWithMiddle(m) ==
    <<[start |-> 0, end |-> 2], [start |-> 4, end |-> 4 + m],
      [start |-> 6 + m, end |-> 8 + m]>>

\* Three big regions whose middle one is [0x10000, 0x1a000), ten pages of
\* 0x1000.
LayoutTenPages ==
    <<[start |-> 0, end |-> 8192], [start |-> 65536, end |-> 106496],
      [start |-> 1048576, end |-> 1056768]>>

\* One task without regions in a context with min_nr_regions from 3 on.
InitEvenly ==
    \E min_nr \in 3..MaxMinNrRegions :
        InitTasks(min_nr, damon_user_ctx.max_nr_regions, <<1>>)

NextEvenly ==
    \E br \in {LayoutWithMiddle(m) : m \in 1..MaxMiddle} \cup {NoRegions, LayoutTenPages} :
        kdamond_init_regions([i \in DOMAIN tasks |-> br])

\* The initialisation of the regions, for every size of the middle region.
SpecEvenly == InitEvenly /\ [][NextEvenly]_vars

\* C20: a task for which the initialisation found the three big regions has
\* exactly min_nr_regions regions after it.
C20_InitGivesMinNrRegions ==
    rop.op = "init" =>
        \A i \in DOMAIN tasks :
            tasks[i].regions # <<>> =>
                nr_damon_regions(tasks[i]) = attrs.min_nr_regions

\* C22: the size-even split of the middle big region into min_nr_regions - 2
\* pieces gives that many touching pieces that cover the region exactly, all
\* but the last of one size that is a multiple of the page size and the last
\* taking the remainder, e.g. ten pages in three pieces of 3, 3 and 4 pages; a
\* region smaller than the number of pieces is left as it is.
C22_SplitEvenly ==
    (rop.op = "init" /\ tasks[1].regions # <<>>) =>
        LET rs == tasks[1].regions
            mid == SubSeq(rs, 2, Len(rs) - 1)
            orig == rop.arg[1][2]
            nr_pieces == attrs.min_nr_regions - 2
            page == IF orig.start = 65536 THEN 4096 ELSE PAGE_SIZE
        IN IF orig.end - orig.start < nr_pieces
           THEN /\ Len(mid) = 1
                /\ mid[1].vm_start = orig.start /\ mid[1].vm_end = orig.end
           ELSE /\ Len(mid) = nr_pieces
                /\ mid[1].vm_start = orig.start
                /\ mid[Len(mid)].vm_end = orig.end
                /\ \A j \in 1..(Len(mid) - 1) : mid[j].vm_end = mid[j + 1].vm_start
                /\ \A j \in 1..(Len(mid) - 1) :
                      /\ sz_damon_region(mid[j]) = sz_damon_region(mid[1])
                      /\ sz_damon_region(mid[j]) % page = 0
                      /\ sz_damon_region(mid[Len(mid)]) >= sz_damon_region(mid[j])
                /\ (orig.start = 65536 /\ nr_pieces = 3) =>
                      /\ mid[1].vm_end = 77824
                      /\ mid[2].vm_end = 90112

(* ------------------------------------------------------------------ *)
(* The three big regions of an address space (mm/damon.c)              *)
(* ------------------------------------------------------------------ *)

\* Number of pages of the address spaces whose vmas are enumerated.
MaxAddr == 9

sz_region(r) == r.end - r.start

\* struct region gap = {0,}
NoGap == [start |-> 0, end |-> 0]

\* The loop of damon_three_regions_in_vmas() with the bug that a gap larger
\* than first_gap replaces it without first_gap becoming second_gap.
RECURSIVE GapLoopDropping(_, _, _, _)
GapLoopDropping(vmas, last_vma, first_gap, second_gap) ==
    IF vmas = <<>> THEN <<first_gap, second_gap>>
    ELSE LET vma == Head(vmas)
             gap == [start |-> last_vma.vm_end, end |-> vma.vm_start]
         IN IF sz_region(gap) > sz_region(second_gap)
            THEN IF sz_region(gap) > sz_region(first_gap)
                 THEN GapLoopDropping(Tail(vmas), vma, gap, second_gap)
                 ELSE GapLoopDropping(Tail(vmas), vma, first_gap, gap)
            ELSE GapLoopDropping(Tail(vmas), vma, first_gap, second_gap)

\* The loop of damon_three_regions_in_vmas() over the vmas after last_vma:
\* <<first_gap, second_gap>> when it ends.
RECURSIVE GapLoop(_, _, _, _)
GapLoop(vmas, last_vma, first_gap, second_gap) ==
    IF vmas = <<>> THEN <<first_gap, second_gap>>
    ELSE LET vma == Head(vmas)
             gap == [start |-> last_vma.vm_end, end |-> vma.vm_start]
         IN IF sz_region(gap) > sz_region(second_gap)
            THEN IF sz_region(gap) > sz_region(first_gap)
                 THEN GapLoop(Tail(vmas), vma, gap, first_gap)
                 ELSE GapLoop(Tail(vmas), vma, first_gap, gap)
            ELSE GapLoop(Tail(vmas), vma, first_gap, second_gap)

\* damon_three_regions_in_vmas(): what it returns and the regions[] it fills.
damon_three_regions_in_vmas(vmas) ==
    IF vmas = <<>> THEN [ret |-> "-EINVAL", regions |-> <<>>]
    ELSE LET gaps == GapLoop(Tail(vmas), Head(vmas), NoGap, NoGap)
             swap == gaps[1].start > gaps[2].start
             first_gap == IF swap THEN gaps[2] ELSE gaps[1]
             second_gap == IF swap THEN gaps[1] ELSE gaps[2]
         IN IF sz_region(gaps[2]) = 0 \/ sz_region(gaps[1]) = 0
            THEN [ret |-> "-EINVAL", regions |-> <<>>]
            ELSE [ret |-> "0",
                  regions |->
                     <<[start |-> Head(vmas).vm_start, end |-> first_gap.start],
                       [start |-> first_gap.end, end |-> second_gap.start],
                       [start |-> second_gap.end, end |-> vmas[Len(vmas)].vm_end]>>]

\* damon_three_regions_of() for a task whose address space is obtained: the
\* three regions, or NoRegions when it fails.
damon_three_regions_of(vmas) == damon_three_regions_in_vmas(vmas).regions

\* The first page from a on that does not continue a vma.
RECURSIVE RunEnd(_, _)
RunEnd(f, a) == IF a \in DOMAIN f /\ f[a] = "cont" THEN RunEnd(f, a + 1) ELSE a

\* The vmas of the page map f from page a on: a page is unmapped, starts a vma
\* or continues the vma of the page before it.
RECURSIVE VmasFrom(_, _)
VmasFrom(f, a) ==
    IF a \notin DOMAIN f THEN <<>>
    ELSE IF f[a] = "start"
    THEN <<[vm_start |-> a, vm_end |-> RunEnd(f, a + 1)]>> \o VmasFrom(f, RunEnd(f, a + 1))
    ELSE VmasFrom(f, a + 1)

\* Every list of vmas in the pages 0..MaxAddr - 1, touching vmas included.
VmaLists ==
    {VmasFrom(f, 0) :
        f \in {g \in [0..(MaxAddr - 1) -> {"none", "start", "cont"}] :
                  \A a \in DOMAIN g :
                      g[a] = "cont" => (a > 0 /\ g[a - 1] # "none")}}

\* The vmas [0, 0x1000), [0x10000, 0x11000), [0x100000, 0x101000).
ThreeVmas ==
    <<[vm_start |-> 0, vm_end |-> 4096], [vm_start |-> 65536, vm_end |-> 69632],
      [vm_start |-> 1048576, vm_end |-> 1052672]>>

\* One task without regions in a context with min_nr_regions = 3, so that the
\* initial regions are the three big regions as they are found.
InitVmas ==
    \E vmas \in VmaLists \cup {ThreeVmas} :
        InitTasksWith(3, damon_user_ctx.max_nr_regions, <<1>>, vmas)

\* kdamond_init_regions() on the address space mmap.
NextVmas ==
    kdamond_init_regions([i \in DOMAIN tasks |-> damon_three_regions_of(mmap)])

SpecVmas == InitVmas /\ [][NextVmas]_vars

\* The places j of the non-empty gaps, between the j-th vma and the next.
GapsOf(vmas) == {j \in 1..(Len(vmas) - 1) : vmas[j].vm_end < vmas[j + 1].vm_start}

GapSize(vmas, j) == vmas[j + 1].vm_start - vmas[j].vm_end

\* C21: with two or more non-empty gaps between the vmas the three big regions
\* run from the first vma to a gap A, from A to a gap B and from B to the end
\* of the last vma, where A lies before B and no other gap is larger than
\* either; they are non-empty, ascending and disjoint and every vma lies in
\* one of them.  With fewer than two non-empty gaps there are no regions.
C21_ThreeRegions ==
    rop.op = "init" =>
        LET rs == tasks[1].regions
        IN IF Cardinality(GapsOf(mmap)) < 2 THEN rs = <<>>
           ELSE /\ Len(rs) = 3
                /\ \E ga \in GapsOf(mmap), gb \in GapsOf(mmap) :
                      /\ ga < gb
                      /\ \A g \in GapsOf(mmap) \ {ga, gb} :
                            /\ GapSize(mmap, g) <= GapSize(mmap, ga)
                            /\ GapSize(mmap, g) <= GapSize(mmap, gb)
                      /\ rs[1].vm_start = mmap[1].vm_start
                      /\ rs[1].vm_end = mmap[ga].vm_end
                      /\ rs[2].vm_start = mmap[ga + 1].vm_start
                      /\ rs[2].vm_end = mmap[gb].vm_end
                      /\ rs[3].vm_start = mmap[gb + 1].vm_start
                      /\ rs[3].vm_end = mmap[Len(mmap)].vm_end
                /\ \A j \in 1..3 : rs[j].vm_start < rs[j].vm_end
                /\ \A j \in 1..2 : rs[j].vm_end < rs[j + 1].vm_start
                /\ \A v \in DOMAIN mmap : \E j \in 1..3 :
                      rs[j].vm_start <= mmap[v].vm_start /\ mmap[v].vm_end <= rs[j].vm_end
                /\ mmap = ThreeVmas =>
                      /\ rs[1].vm_start = 0 /\ rs[1].vm_end = 4096
                      /\ rs[2].vm_start = 65536 /\ rs[2].vm_end = 69632
                      /\ rs[3].vm_start = 1048576 /\ rs[3].vm_end = 1052672

\* Four vmas with a small gap before two larger ones were turned into three
\* regions, the first of which spans the small gap.
C21_Witness ==
    /\ rop.op = "init"
    /\ Cardinality(GapsOf(mmap)) = 3
    /\ GapSize(mmap, 1) < GapSize(mmap, 2)
    /\ GapSize(mmap, 1) < GapSize(mmap, 3)
    /\ Len(tasks[1].regions) = 3
    /\ tasks[1].regions[1].vm_end = mmap[2].vm_end

(* ------------------------------------------------------------------ *)
(* The regions after a regions update                                   *)
(* ------------------------------------------------------------------ *)

\* The region r and the big region b have an address in common.
Overlap(r, b) == r.vm_start < b.end /\ b.start < r.vm_end

\* The least member of a set of numbers that is not empty.
Least(S) == CHOOSE j \in S : \A m \in S : j <= m

\* The regions post are the regions pre re-synced with the big regions B,
\* Had(k) being the regions of pre that count as those the k-th big region
\* had: every region of post lies in exactly one big region; a big region
\* that had regions holds these, in order, the first now starting at its
\* start, the last now ending at its end, and otherwise as they were; a big
\* region that had none holds one new region equal to it.
Resynced(pre, post, B, Had(_)) ==
    /\ Ordered(post)
    /\ \A j \in DOMAIN post :
          Cardinality({k \in 1..3 : B[k].start <= post[j].vm_start
                                    /\ post[j].vm_end <= B[k].end}) = 1
    /\ \A k \in 1..3 :
          LET InB == {j \in DOMAIN post : B[k].start <= post[j].vm_start
                                          /\ post[j].vm_end <= B[k].end}
              n == Cardinality(InB)
          IN /\ InB # {}
             /\ post[Least(InB)].vm_start = B[k].start
             /\ post[Least(InB) + n - 1].vm_end = B[k].end
             /\ Had(k) = {} => n = 1 /\ post[Least(InB)].nr_accesses = 0
             /\ Had(k) # {} =>
                   /\ n = Cardinality(Had(k))
                   /\ \A d \in 0..(n - 1) :
                         LET o == pre[Least(Had(k)) + d]
                             r == post[Least(InB) + d]
                         IN /\ r.nr_accesses = o.nr_accesses
                            /\ d > 0 => r.vm_start = o.vm_start
                            /\ d < n - 1 => r.vm_end = o.vm_end

\* C27 as stated: after a regions update with the big regions B each region
\* that met none of B is gone, each region left lies in exactly one big
\* region, a big region that any region met holds those regions, the first
\* now starting at its start and the last now ending at its end, and a big
\* region that no region met holds one new region equal to it.
C27_ResyncByAnyOverlap ==
    rop.op = "update" =>
        \A i \in DOMAIN tasks : rop.arg[i] # NoRegions =>
            Resynced(rop.pre[i].regions, tasks[i].regions, rop.arg[i],
                     LAMBDA k : {j \in DOMAIN rop.pre[i].regions :
                                    Overlap(rop.pre[i].regions[j], rop.arg[i][k])})

\* C27 amended: the same, the regions a big region had being those that met
\* it and met no lower big region; a region that met two big regions is cut
\* to the lower one.
C27_ResyncByLowestOverlap ==
    rop.op = "update" =>
        \A i \in DOMAIN tasks : rop.arg[i] # NoRegions =>
            Resynced(rop.pre[i].regions, tasks[i].regions, rop.arg[i],
                     LAMBDA k : {j \in DOMAIN rop.pre[i].regions :
                                    /\ Overlap(rop.pre[i].regions[j], rop.arg[i][k])
                                    /\ \A l \in 1..(k - 1) :
                                          ~Overlap(rop.pre[i].regions[j], rop.arg[i][l])})

\* A regions update has cut a region with accesses that met two big regions
\* to the lower one and has made a new region for the upper one; a region
\* that met no big region is gone.
C27_Witness ==
    /\ rop.op = "update"
    /\ \E i \in DOMAIN tasks :
          /\ rop.arg[i] # NoRegions
          /\ \E j \in DOMAIN rop.pre[i].regions :
                /\ rop.pre[i].regions[j].nr_accesses > 0
                /\ Overlap(rop.pre[i].regions[j], rop.arg[i][2])
                /\ Overlap(rop.pre[i].regions[j], rop.arg[i][3])
                /\ \E m \in DOMAIN tasks[i].regions :
                      /\ tasks[i].regions[m].vm_start = rop.arg[i][3].start
                      /\ tasks[i].regions[m].vm_end = rop.arg[i][3].end
                      /\ tasks[i].regions[m].nr_accesses = 0
          /\ \E j \in DOMAIN rop.pre[i].regions :
                \A k \in 1..3 : ~Overlap(rop.pre[i].regions[j], rop.arg[i][k])

\* C34: when the three regions of a task are not found in a regions update,
\* the regions of that task stay as they are, the regions of the other tasks
\* are fitted to their three regions all the same, and an update after a
\* failed one fits the regions of the task when its three regions are found.
C34_FailedUpdateSkipsTask ==
    [][rop'.op = "update" =>
          \A i \in DOMAIN tasks' :
              /\ rop'.arg[i] = NoRegions => tasks'[i] = tasks[i]
              /\ rop'.arg[i] # NoRegions =>
                    /\ tasks'[i].regions # <<>>
                    /\ tasks'[i].regions[1].vm_start = rop'.arg[i][1].start
                    /\ tasks'[i].regions[Len(tasks'[i].regions)].vm_end = rop'.arg[i][3].end
                    /\ \A j \in DOMAIN tasks'[i].regions : \E k \in 1..3 :
                          /\ rop'.arg[i][k].start <= tasks'[i].regions[j].vm_start
                          /\ tasks'[i].regions[j].vm_end <= rop'.arg[i][k].end
      ]_vars

\* In a regions update the three regions of the first task were not found
\* and its regions stayed, while the regions of the second task changed.
C34_Witness ==
    /\ rop.op = "update"
    /\ Len(tasks) = 2
    /\ rop.arg[1] = NoRegions
    /\ tasks[1].regions # <<>>
    /\ tasks[1] = rop.pre[1]
    /\ rop.arg[2] # NoRegions
    /\ tasks[2].regions # rop.pre[2].regions

(* ------------------------------------------------------------------ *)
(* The merge step on lists of three regions                             *)
(* ------------------------------------------------------------------ *)

ScanSizes == {1, 3}

ScanCounts == {0, 1, 2}

ScanGaps == {0, 1}

\* Three regions of the given sizes and access counts, gap[k] address units
\* apart.
ScanRegions(sz, nr, gap) ==
    <<RegionWith(0, sz[1], nr[1]),
      RegionWith(sz[1] + gap[1], sz[2], nr[2]),
      RegionWith(sz[1] + gap[1] + sz[2] + gap[2], sz[3], nr[3])>>

\* One task with three regions, alone or with a second task whose one
\* region starts at the address where the last region of the first ends and
\* has the access count of that region.
InitScan ==
    \E sz \in [1..3 -> ScanSizes], nr \in [1..3 -> ScanCounts], gap \in [1..2 -> ScanGaps],
       second \in BOOLEAN :
        /\ InitCore([c \in Ctxs |-> <<>>], [c \in Ctxs |-> TRUE],
                    [c \in Ctxs |-> TRUE], [c \in Ctxs |-> TRUE])
        /\ attrs = damon_user_ctx
        /\ attr_call = NoAttrCall
        /\ tgt_call = NoTargetsCall
        /\ tasks = <<[damon_new_task(1) EXCEPT !.regions = ScanRegions(sz, nr, gap)]>> \o
                   (IF second
                    THEN <<[damon_new_task(2) EXCEPT !.regions =
                              <<RegionWith(ScanRegions(sz, nr, gap)[3].vm_end, 1, nr[3])>>]>>
                    ELSE <<>>)
        /\ rop = NoRegionOp
        /\ nops = 0
        /\ InitMon

NextScan == \E threshold \in 0..MaxThres : kdamond_merge_regions(threshold)

\* Merge steps on lists of three regions.
SpecScan == InitScan /\ [][NextScan]_vars

\* The access count of the region that the regions a..m of the list, taken
\* in one after the other, have become.
RECURSIVE RunAvg(_, _, _)
RunAvg(pre, a, m) ==
    IF m = a THEN pre[a].nr_accesses
    ELSE (RunAvg(pre, a, m - 1) * (pre[m - 1].vm_end - pre[a].vm_start)
          + pre[m].nr_accesses * (pre[m].vm_end - pre[m].vm_start))
         \div (pre[m].vm_end - pre[a].vm_start)

\* The m-th region of the list is merged into the region that the regions
\* a..m-1 have become.
Absorbed(pre, a, m, thres) ==
    /\ pre[m - 1].vm_end = pre[m].vm_start
    /\ RunAvg(pre, a, m - 1) - pre[m].nr_accesses <= thres
    /\ pre[m].nr_accesses - RunAvg(pre, a, m - 1) <= thres

TookNothing(pre, post, k) ==
    \E m \in DOMAIN pre : /\ pre[m].vm_start = post[k].vm_start
                          /\ pre[m].vm_end = post[k].vm_end

\* C39 as stated: right after a merge step with threshold T no two touching
\* neighbours of a task have access counts that differ by at most T.
C39_MergeLeavesNothingToMerge ==
    rop.op = "merge" =>
        \A i \in DOMAIN tasks :
           LET post == tasks[i].regions
           IN \A k \in 1..(Len(post) - 1) :
                 post[k].vm_end = post[k + 1].vm_start
                    => diff_of(post[k].nr_accesses, post[k + 1].nr_accesses) > rop.arg

\* C39 amended: right after a merge step with threshold T no two touching
\* neighbours of a task, of which the second took in no region during the
\* step, have access counts that differ by at most T.
C39_MergeLeavesNoUnmergedPair ==
    rop.op = "merge" =>
        \A i \in DOMAIN tasks :
           LET post == tasks[i].regions
           IN \A k \in 1..(Len(post) - 1) :
                 (post[k].vm_end = post[k + 1].vm_start
                  /\ TookNothing(rop.pre[i].regions, post, k + 1))
                    => diff_of(post[k].nr_accesses, post[k + 1].nr_accesses) > rop.arg

\* A merge step with threshold 1 has merged the first two of three touching
\* regions and left the third, whose count is 2 away from their average.
C39_Witness ==
    /\ rop.op = "merge"
    /\ rop.arg = 1
    /\ Len(rop.pre[1].regions) = 3
    /\ Len(tasks[1].regions) = 2
    /\ tasks[1].regions[1].vm_end = tasks[1].regions[2].vm_start
    /\ TookNothing(rop.pre[1].regions, tasks[1].regions, 2)
    /\ ~TookNothing(rop.pre[1].regions, tasks[1].regions, 1)
    /\ diff_of(tasks[1].regions[1].nr_accesses, tasks[1].regions[2].nr_accesses) = 2

(* ------------------------------------------------------------------ *)
(* kdamond_fn() of mm/damon.c: the monitoring worker                    *)
(* ------------------------------------------------------------------ *)

\* Number of iterations of the loop of kdamond_fn() of mm/damon.c.
MaxIters == 3

\* The page of an address.
PageOf(addr) == addr \div PAGE_SIZE

\* follow_pte_pmd() finds a pte for the address: it lies in a vma.
follow_pte_pmd(vmas, addr) ==
    \E v \in DOMAIN vmas : vmas[v].vm_start <= addr /\ addr < vmas[v].vm_end

\* The pages of the vmas.
MappedPages(vmas) ==
    UNION {{PageOf(a) : a \in vmas[v].vm_start..(vmas[v].vm_end - 1)} : v \in DOMAIN vmas}

\* damon_rand(ctx, l, r), a number of [l, r): the least, or the largest.
damon_rand(l, r, hi) == IF hi THEN r - 1 ELSE l

\* The addresses a read of a sampling_addr that was never written gives in the
\* model: one in the first vma, one in no vma.
UninitReads == {1, 9}

\* The address the read of r->sampling_addr gives, u being what a field that
\* was never written holds.
ReadSamplingAddr(r, u) == IF r.sampling_addr = Uninit THEN u ELSE r.sampling_addr

\* damon_prepare_access_check() on every region of a list: the regions with
\* their new sampling_addr.
PrepareRegions(regions, hi) ==
    [j \in DOMAIN regions |->
        [regions[j] EXCEPT !.sampling_addr =
            damon_rand(regions[j].vm_start, regions[j].vm_end, hi)]]

\* The pages damon_pte_pmd_mkold() clears the accessed bit of, for the
\* regions of the address space mm.
MadeOld(mm, regions, vmas) ==
    {<<mm, PageOf(regions[j].sampling_addr)>> :
        j \in {i \in DOMAIN regions : follow_pte_pmd(vmas, regions[i].sampling_addr)}}

\* damon_check_access(): the static variables and the region after the call,
\* addr being r->sampling_addr as it is read.
damon_check_access(last, mm, r, addr, yng, vmas) ==
    IF /\ mm = last.last_mm
       /\ ALIGN_DOWN(last.last_addr, last.last_page_sz) = ALIGN_DOWN(addr, last.last_page_sz)
    THEN [last |-> last,
          r |-> IF last.last_accessed THEN [r EXCEPT !.nr_accesses = @ + 1] ELSE r]
    ELSE LET found == follow_pte_pmd(vmas, addr)
             accessed == found /\ <<mm, PageOf(addr)>> \in yng
         IN [last |-> [last_mm |-> mm, last_addr |-> addr,
                       last_page_sz |-> IF found THEN PAGE_SIZE ELSE HPAGE_SIZE,
                       last_accessed |-> accessed],
             r |-> IF accessed THEN [r EXCEPT !.nr_accesses = @ + 1] ELSE r]

Max(a, b) == IF a > b THEN a ELSE b

\* damon_for_each_region of kdamond_check_accesses() over the regions not yet
\* checked: the static variables, the regions and max_nr_accesses after it.
RECURSIVE CheckRegions(_, _, _, _, _, _, _, _)
CheckRegions(last, mm, done, rest, mx, u, yng, vmas) ==
    IF rest = <<>> THEN [last |-> last, regions |-> done, max |-> mx]
    ELSE LET c == damon_check_access(last, mm, Head(rest),
                                     ReadSamplingAddr(Head(rest), u), yng, vmas)
         IN CheckRegions(c.last, mm, Append(done, c.r), Tail(rest),
                         Max(c.r.nr_accesses, mx), u, yng, vmas)

\* damon_for_each_task of kdamond_check_accesses() from the i-th task on; a
\* task whose address space damon_get_mm() does not obtain is passed over.
RECURSIVE CheckTasks(_, _, _, _, _, _, _, _)
CheckTasks(last, ts, i, mx, mms, u, yng, vmas) ==
    IF i > Len(ts) THEN [last |-> last, tasks |-> ts, max |-> mx]
    ELSE IF ts[i].pid \notin mms
    THEN CheckTasks(last, ts, i + 1, mx, mms, u, yng, vmas)
    ELSE LET c == CheckRegions(last, ts[i].pid, <<>>, ts[i].regions, mx, u, yng, vmas)
         IN CheckTasks(c.last, [ts EXCEPT ![i].regions = c.regions], i + 1, c.max,
                       mms, u, yng, vmas)

\* A step of kdamond_fn() from pc to next that leaves the tasks as ts.
LoopStep(pc, next, op, arg, ts) ==
    /\ kpc = pc
    /\ kpc' = next
    /\ tasks' = ts
    /\ rop' = [op |-> op, pre |-> tasks, arg |-> arg]
    /\ nops' = nops
    /\ UNCHANGED <<core_vars, attr_vars, tgt_call, pa_last, mmap, schemes>>

\* The log of the iteration with the step op at its end.
LogStep(op) == [obs EXCEPT !.log = Append(@, op)]

\* kdamond_init_regions(ctx)
LoopInitRegions ==
    /\ LoopStep("init", "need_stop", "init", 0,
          [i \in DOMAIN tasks |->
              [tasks[i] EXCEPT !.regions =
                  damon_init_regions_of(attrs.min_nr_regions,
                      IF tasks[i].pid \in mm_ok THEN damon_three_regions_of(mmap)
                      ELSE NoRegions)]])
    /\ UNCHANGED <<max_nr_accesses, mm_ok, young, last_chk, obs>>

\* while (!kdamond_need_stop(ctx)): kthread_should_stop() is true when
\* damon_stop() was called, which the model has happen after MaxIters
\* iterations at the latest; without it the loop goes on while a task lives.
LoopNeedStop ==
    /\ \E should_stop \in BOOLEAN :
          /\ obs.iter >= MaxIters => should_stop
          /\ LoopStep("need_stop",
                IF should_stop \/ \A i \in DOMAIN tasks : tasks[i].pid \notin mm_ok
                THEN "done" ELSE "prepare",
                "need_stop", 0, tasks)
    /\ obs' = LogStep("need_stop")
    /\ UNCHANGED <<max_nr_accesses, mm_ok, young, last_chk>>

\* kdamond_prepare_access_checks(ctx)
LoopPrepare ==
    \E hi \in BOOLEAN :
        LET ts == [i \in DOMAIN tasks |->
                      IF tasks[i].pid \in mm_ok
                      THEN [tasks[i] EXCEPT !.regions = PrepareRegions(@, hi)]
                      ELSE tasks[i]]
        IN /\ LoopStep("prepare", "sample_cb", "prepare", 0, ts)
           /\ young' = young \ UNION {MadeOld(ts[i].pid, ts[i].regions, mmap) :
                                         i \in {j \in DOMAIN ts : ts[j].pid \in mm_ok}}
           /\ obs' = [obs EXCEPT !.log = <<"prepare">>, !.prep = ts]
           /\ UNCHANGED <<max_nr_accesses, mm_ok, last_chk>>

\* if (ctx->sample_cb) ctx->sample_cb(ctx)
LoopSampleCb ==
    /\ LoopStep("sample_cb", "aggregate", "sample_cb", 0, tasks)
    /\ obs' = LogStep("sample_cb")
    /\ UNCHANGED <<max_nr_accesses, mm_ok, young, last_chk>>

\* if (kdamond_aggregate_interval_passed(ctx)): the clock's choice.
LoopAggregate ==
    /\ \E passed \in BOOLEAN :
          LoopStep("aggregate", IF passed THEN "merge" ELSE "update", "aggregate", 0, tasks)
    /\ obs' = [obs EXCEPT !.aggr_pre = tasks, !.cb_seen = <<>>]
    /\ UNCHANGED <<max_nr_accesses, mm_ok, young, last_chk>>

\* kdamond_merge_regions(ctx, max_nr_accesses / 10)
LoopMerge ==
    /\ LoopStep("merge", "aggregate_cb", "merge", max_nr_accesses \div 10,
          [i \in DOMAIN tasks |->
              [tasks[i] EXCEPT !.regions =
                  damon_merge_regions_of(@, max_nr_accesses \div 10)]])
    /\ obs' = LogStep("merge")
    /\ UNCHANGED <<max_nr_accesses, mm_ok, young, last_chk>>

\* if (ctx->aggregate_cb) ctx->aggregate_cb(ctx): the callback reads the
\* regions of the tasks.
LoopAggregateCb ==
    /\ LoopStep("aggregate_cb", "reset", "aggregate_cb", 0, tasks)
    /\ obs' = [LogStep("aggregate_cb") EXCEPT !.cb_seen = tasks]
    /\ UNCHANGED <<max_nr_accesses, mm_ok, young, last_chk>>

\* A kdamond_reset_aggregated(ctx) that passes over the tasks that exited.
LoopResetLiving ==
    /\ LoopStep("reset", "split", "reset", 0,
          [i \in DOMAIN tasks |->
              IF tasks[i].pid \notin mm_ok THEN tasks[i]
              ELSE [tasks[i] EXCEPT !.regions =
                      [j \in DOMAIN tasks[i].regions |->
                          [tasks[i].regions[j] EXCEPT !.nr_accesses = 0]]]])
    /\ obs' = LogStep("reset")
    /\ UNCHANGED <<max_nr_accesses, mm_ok, young, last_chk>>

\* kdamond_reset_aggregated(ctx)
LoopReset ==
    /\ LoopStep("reset", "split", "reset", 0,
          [i \in DOMAIN tasks |->
              [tasks[i] EXCEPT !.regions =
                  [j \in DOMAIN tasks[i].regions |->
                      [tasks[i].regions[j] EXCEPT !.nr_accesses = 0]]]])
    /\ obs' = LogStep("reset")
    /\ UNCHANGED <<max_nr_accesses, mm_ok, young, last_chk>>

\* kdamond_split_regions(ctx); the random numbers drawn in one call are equal.
LoopSplit ==
    /\ \E rnd \in {[j \in 1..NrRandsDrawn |-> v] : v \in Rands} :
          LoopStep("split", "update", "split", 0,
             IF SplitSkips(TotalRegions(tasks), attrs.max_nr_regions)
             THEN tasks
             ELSE [i \in DOMAIN tasks |->
                     [tasks[i] EXCEPT !.regions =
                         damon_split_regions_of(@,
                            SubSeq(rnd, RegionsBefore(tasks, i) + 1,
                                   RegionsBefore(tasks, i) + nr_damon_regions(tasks[i])))]])
    /\ obs' = LogStep("split")
    /\ UNCHANGED <<max_nr_accesses, mm_ok, young, last_chk>>

\* if (kdamond_need_update_regions(ctx)) kdamond_update_regions(ctx): the
\* clock's choice; a task whose three regions are not found is passed over.
LoopUpdateRegions ==
    \/ /\ LoopStep("update", "sleep", "no_update", 0, tasks)
       /\ UNCHANGED <<max_nr_accesses, mm_ok, young, last_chk, obs>>
    \/ /\ LoopStep("update", "sleep", "update", 0,
             [i \in DOMAIN tasks |->
                 IF tasks[i].pid \notin mm_ok \/ damon_three_regions_of(mmap) = NoRegions
                 THEN tasks[i]
                 ELSE [tasks[i] EXCEPT !.regions =
                          damon_apply_three_regions(@, damon_three_regions_of(mmap))]])
       /\ obs' = LogStep("update")
       /\ UNCHANGED <<max_nr_accesses, mm_ok, young, last_chk>>

\* usleep_range(): while the worker sleeps the tasks access no page, the
\* first page or every page of their vmas, and tasks exit.
LoopSleep ==
    /\ LoopStep("sleep", "check", "sleep", 0, tasks)
    /\ \E gone \in SUBSET mm_ok : mm_ok' = mm_ok \ gone
    /\ \E pages \in {{}, {PageOf(mmap[1].vm_start)}, MappedPages(mmap)} :
          young' = young \cup {<<tasks[i].pid, p>> : i \in DOMAIN tasks, p \in pages}
    /\ obs' = LogStep("sleep")
    /\ UNCHANGED <<max_nr_accesses, last_chk>>

\* max_nr_accesses = kdamond_check_accesses(ctx)
LoopCheckAccesses ==
    \E u \in UninitReads :
        LET c == CheckTasks(last_chk, tasks, 1, 0, mm_ok, u, young, mmap)
        IN /\ LoopStep("check", "need_stop", "check", mm_ok, c.tasks)
           /\ last_chk' = c.last
           /\ max_nr_accesses' = c.max
           /\ obs' = [LogStep("check") EXCEPT !.iter = @ + 1, !.ret = c.max,
                                               !.last0 = last_chk]
           /\ UNCHANGED <<mm_ok, young>>

\* After the loop: damon_destroy_region() for every region of every task.
LoopDestroyRegions ==
    /\ LoopStep("done", "finished", "destroy", 0,
          [i \in DOMAIN tasks |-> [tasks[i] EXCEPT !.regions = <<>>]])
    /\ UNCHANGED <<max_nr_accesses, mm_ok, young, last_chk, obs>>

\* The vmas [0, 2), [4, 8), [10, 12): four mapped pages and two gaps.
LoopVmas ==
    <<[vm_start |-> 0, vm_end |-> 2], [vm_start |-> 4, vm_end |-> 8],
      [vm_start |-> 10, vm_end |-> 12]>>

\* kdamond_fn() is about to run for one or two tasks that live.
InitLoop ==
    \E nrs \in {<<3, 6>>, <<4, 8>>, <<3, 12>>}, pids \in {<<1>>, <<1, 2>>} :
        /\ InitCore([c \in Ctxs |-> <<>>], [c \in Ctxs |-> TRUE],
                    [c \in Ctxs |-> TRUE], [c \in Ctxs |-> TRUE])
        /\ attrs = [damon_user_ctx EXCEPT !.min_nr_regions = nrs[1],
                                          !.max_nr_regions = nrs[2]]
        /\ attr_call = NoAttrCall
        /\ tgt_call = NoTargetsCall
        /\ tasks = [i \in DOMAIN pids |-> damon_new_task(pids[i])]
        /\ rop = NoRegionOp
        /\ nops = 0
        /\ mmap = LoopVmas
        /\ schemes = [c \in Ctxs |-> <<>>]
        /\ kpc = "init"
        /\ max_nr_accesses = 0
        /\ mm_ok = {pids[i] : i \in DOMAIN pids}
        /\ young = {}
        /\ last_chk = NoLastCheck
        /\ pa_last = NoPaLastCheck
        /\ obs = NoObs

NextLoop ==
    \/ LoopInitRegions
    \/ LoopNeedStop
    \/ LoopPrepare
    \/ LoopSampleCb
    \/ LoopAggregate
    \/ LoopMerge
    \/ LoopAggregateCb
    \/ LoopReset
    \/ LoopSplit
    \/ LoopUpdateRegions
    \/ LoopSleep
    \/ LoopCheckAccesses
    \/ LoopDestroyRegions

SpecLoop == InitLoop /\ [][NextLoop]_vars

\* The steps of the aggregation.
AggregationSteps == {"aggregate_cb", "merge", "reset", "split"}

\* The place of a step in the order prepare, sampling callback, sleep,
\* check, aggregation, regions update, stop check.
IterationRank(op) ==
    CASE op = "prepare" -> 1
      [] op = "sample_cb" -> 2
      [] op = "sleep" -> 3
      [] op = "check" -> 4
      [] op \in AggregationSteps -> 5
      [] op = "update" -> 6
      [] op = "need_stop" -> 7

\* C24: the steps of an iteration of the worker run in the order prepare
\* the access checks, sampling callback, sleep, check the accesses,
\* aggregation if its interval passed, regions update if its interval
\* passed, stop check; so no step of the aggregation and no regions update
\* runs after the checks were prepared and before they were made.
C24_IterationOrder ==
    /\ \A p \in DOMAIN obs.log : \A q \in DOMAIN obs.log :
          p < q => IterationRank(obs.log[p]) <= IterationRank(obs.log[q])
    /\ \A q \in DOMAIN obs.log :
          obs.log[q] \in AggregationSteps \cup {"update"}
             => \E p \in 1..(q - 1) : obs.log[p] = "check"

\* The place of a step in the order aggregation callback, merge, scheme
\* application, reset, split.
AggregationRank(op) ==
    CASE op = "aggregate_cb" -> 1
      [] op = "merge" -> 2
      [] op = "reset" -> 4
      [] op = "split" -> 5

\* C25: within an aggregation the worker runs the aggregation callback, the
\* merge with a tenth of the max_nr_accesses the latest check returned as
\* threshold, the reset of the counts and the split, in this order; so the
\* callback sees the regions and counts as they were before merging.
C25_AggregationOrder ==
    /\ \A p \in DOMAIN obs.log : \A q \in DOMAIN obs.log :
          /\ p < q
          /\ obs.log[p] \in AggregationSteps
          /\ obs.log[q] \in AggregationSteps
          => AggregationRank(obs.log[p]) < AggregationRank(obs.log[q])
    /\ obs.cb_seen # <<>> => obs.cb_seen = obs.aggr_pre
    /\ rop.op = "merge" => rop.arg = obs.ret \div 10
    /\ kpc = "prepare" => \A op \in AggregationSteps :
          Cardinality({p \in DOMAIN obs.log : obs.log[p] = op})
             = Cardinality({p \in DOMAIN obs.log : obs.log[p] = "split"})

\* The nr_accesses of the regions of the tasks.
AllNrAccesses(ts) ==
    UNION {{ts[i].regions[j].nr_accesses : j \in DOMAIN ts[i].regions} : i \in DOMAIN ts}

\* C29: kdamond_check_accesses() returns the largest nr_accesses of the
\* regions of all tasks as they are after the round, the regions of a task
\* whose address space was not obtained included, and 0 when there is no
\* region.
C29_CheckReturnsMax ==
    rop.op = "check" =>
        /\ \A n \in AllNrAccesses(tasks) : n <= max_nr_accesses
        /\ max_nr_accesses \in AllNrAccesses(tasks) \cup {0}
        /\ max_nr_accesses = 0 => AllNrAccesses(tasks) \subseteq {0}

\* C30: every region kdamond_check_accesses() examines has its sampling_addr
\* inside the region, and is, with this range and this sampling_addr, a
\* region the prepare step of the same iteration prepared: no region that a
\* split, a merge or a regions update made or resized is checked before it
\* was prepared.
C30_CheckedWasPrepared ==
    rop.op = "check" =>
        \A i \in DOMAIN rop.pre : rop.pre[i].pid \in rop.arg =>
            \A j \in DOMAIN rop.pre[i].regions :
                LET r == rop.pre[i].regions[j]
                IN /\ r.sampling_addr # Uninit
                   /\ r.vm_start <= r.sampling_addr
                   /\ r.sampling_addr < r.vm_end
                   /\ \E k \in DOMAIN obs.prep[i].regions :
                         LET p == obs.prep[i].regions[k]
                         IN /\ p.vm_start = r.vm_start
                            /\ p.vm_end = r.vm_end
                            /\ p.sampling_addr = r.sampling_addr

\* The nr_accesses of the regions of a task, in the order of the list.
NrAccessesOf(t) == [j \in DOMAIN t.regions |-> t.regions[j].nr_accesses]

\* C31: right after an aggregation every region of every task has
\* nr_accesses 0, the regions the split made and the regions of tasks that
\* exited included; outside the aggregation the nr_accesses of a region
\* changes only in kdamond_check_accesses(), where it grows by one or stays.
C31_ResetByAggregation ==
    [][/\ rop'.op = "split" =>
            \A i \in DOMAIN tasks' : \A j \in DOMAIN tasks'[i].regions :
                tasks'[i].regions[j].nr_accesses = 0
       /\ rop'.op = "check" =>
            \A i \in DOMAIN tasks' :
                /\ Len(tasks'[i].regions) = Len(tasks[i].regions)
                /\ \A j \in DOMAIN tasks'[i].regions :
                      tasks'[i].regions[j].nr_accesses - tasks[i].regions[j].nr_accesses
                         \in {0, 1}
       /\ rop'.op \in {"need_stop", "prepare", "sample_cb", "aggregate", "no_update", "sleep"} =>
            \A i \in DOMAIN tasks' : NrAccessesOf(tasks'[i]) = NrAccessesOf(tasks[i])
       /\ rop'.op = "update" =>
            \A i \in DOMAIN tasks' : \A j \in DOMAIN tasks'[i].regions :
                \/ tasks'[i].regions[j].nr_accesses = 0
                \/ \E m \in DOMAIN tasks[i].regions :
                      /\ tasks[i].regions[m].nr_accesses = tasks'[i].regions[j].nr_accesses
                      /\ tasks[i].regions[m].vm_start < tasks'[i].regions[j].vm_end
                      /\ tasks'[i].regions[j].vm_start < tasks[i].regions[m].vm_end
      ]_vars

\* An aggregation is over in which a region had accesses, one of two tasks
\* had exited and the split made regions.
C31_Witness ==
    /\ rop.op = "split"
    /\ Len(tasks) = 2
    /\ Cardinality(mm_ok) = 1
    /\ TotalRegions(tasks) > TotalRegions(rop.pre)
    /\ \E i \in DOMAIN obs.aggr_pre : \E j \in DOMAIN obs.aggr_pre[i].regions :
          /\ obs.aggr_pre[i].pid \notin mm_ok
          /\ obs.aggr_pre[i].regions[j].nr_accesses > 0

\* The values a read of an age that was never written gives in the model.
UninitAges == {0, 7}

\* The age a read of r->age gives, u being what a field that was never
\* written holds.
ReadAge(r, u) == IF r.age = Uninit THEN u ELSE r.age

\* C32: the age of a region is zero when the region is made, and at each
\* aggregation the region survives it grows by one or, when the access
\* frequency changed much, goes back to zero.
C32_RegionAge ==
    [][\A u \in UninitAges :
          /\ rop'.op \in {"init", "split", "update"} =>
                \A i \in DOMAIN tasks' : \A j \in DOMAIN tasks'[i].regions :
                    (\A m \in DOMAIN tasks[i].regions :
                        tasks[i].regions[m].vm_start # tasks'[i].regions[j].vm_start)
                       => ReadAge(tasks'[i].regions[j], u) = 0
          /\ rop'.op = "reset" =>
                \A i \in DOMAIN tasks' : \A j \in DOMAIN tasks'[i].regions :
                    ReadAge(tasks'[i].regions[j], u)
                       \in {0, ReadAge(tasks[i].regions[j], u) + 1}
      ]_vars

\* #define MIN_REGION PAGE_SIZE
MIN_REGION == PAGE_SIZE

\* C33: every region has its start before its end and both on a multiple of
\* MIN_REGION; the split step leaves a region of at most 2 * MIN_REGION as it
\* is and cuts a larger one at a multiple of MIN_REGION inside it.
C33_RegionsAligned ==
    /\ \A i \in DOMAIN tasks : \A j \in DOMAIN tasks[i].regions :
          /\ tasks[i].regions[j].vm_start < tasks[i].regions[j].vm_end
          /\ tasks[i].regions[j].vm_start % MIN_REGION = 0
          /\ tasks[i].regions[j].vm_end % MIN_REGION = 0
    /\ rop.op = "split" =>
          \A i \in DOMAIN rop.pre : \A j \in DOMAIN rop.pre[i].regions :
              rop.pre[i].regions[j].vm_end - rop.pre[i].regions[j].vm_start <= 2 * MIN_REGION
                 => \E m \in DOMAIN tasks[i].regions :
                       /\ tasks[i].regions[m].vm_start = rop.pre[i].regions[j].vm_start
                       /\ tasks[i].regions[m].vm_end = rop.pre[i].regions[j].vm_end

(* ------------------------------------------------------------------ *)
(* Access checks of mm/damon/paddr.c                                    *)
(* ------------------------------------------------------------------ *)

\* The region lists the user gives the one target of the context: regions
\* of the physical pages 0 and 1.
PaRegionLists ==
    {<<damon_new_region(0, 2)>>, <<damon_new_region(2, 4)>>, <<damon_new_region(0, 4)>>,
     <<damon_new_region(0, 2), damon_new_region(2, 4)>>,
     <<damon_new_region(0, 1), damon_new_region(1, 2), damon_new_region(2, 4)>>}

\* The physical pages of the model.
PaPages == {0, 1}

\* damon_pa_young(): the accessed bit of the page of paddr, which is a page
\* of PAGE_SIZE.
damon_pa_young(paddr, yng) == <<0, PageOf(paddr)>> \in yng

\* __damon_pa_check_access(): the static variables and the region after it.
damon_pa_check_access(last, r, yng) ==
    IF ALIGN_DOWN(last.last_addr, last.last_page_sz)
          = ALIGN_DOWN(r.sampling_addr, last.last_page_sz)
    THEN [last |-> last,
          r |-> IF last.last_accessed THEN [r EXCEPT !.nr_accesses = @ + 1] ELSE r]
    ELSE LET accessed == damon_pa_young(r.sampling_addr, yng)
         IN [last |-> [last_addr |-> r.sampling_addr, last_page_sz |-> PAGE_SIZE,
                       last_accessed |-> accessed],
             r |-> IF accessed THEN [r EXCEPT !.nr_accesses = @ + 1] ELSE r]

\* damon_for_each_region of damon_pa_check_accesses() over the regions not
\* yet checked.
RECURSIVE PaCheckRegions(_, _, _, _, _)
PaCheckRegions(last, done, rest, mx, yng) ==
    IF rest = <<>> THEN [last |-> last, regions |-> done, max |-> mx]
    ELSE LET c == damon_pa_check_access(last, Head(rest), yng)
         IN PaCheckRegions(c.last, Append(done, c.r), Tail(rest),
                           Max(c.r.nr_accesses, mx), yng)

\* A step of the worker of the context c1 on the regions of its target.
PaStep(pc, next, regions) ==
    /\ kpc = pc
    /\ kpc' = next
    /\ targets' = [targets EXCEPT !["c1"][1].regions = regions]
    /\ UNCHANGED <<damon_lock, nr_running_ctxs, kdamond, kdamond_stop, kdamond_lock,
                   has_target_valid, has_init_regions, has_callbacks, alive, usr, ncalls,
                   kth, attr_vars, tgt_call, tasks, rop, nops, mm_ok, last_chk, mmap,
                   schemes>>

\* damon_pa_prepare_access_checks(ctx)
damon_pa_prepare_access_checks ==
    /\ obs.iter < MaxIters
    /\ \E hi \in BOOLEAN :
          LET rs == [j \in DOMAIN targets["c1"][1].regions |->
                       [targets["c1"][1].regions[j] EXCEPT !.sampling_addr =
                           damon_rand(targets["c1"][1].regions[j].start,
                                      targets["c1"][1].regions[j].end, hi)]]
          IN /\ PaStep("pa_prepare", "pa_sleep", rs)
             /\ young' = young \ {<<0, PageOf(rs[j].sampling_addr)>> : j \in DOMAIN rs}
             /\ obs' = [obs EXCEPT !.prep = rs]
             /\ UNCHANGED <<pa_last, max_nr_accesses>>

\* The sample interval: pages are accessed.
PaSleep ==
    /\ PaStep("pa_sleep", "pa_check", targets["c1"][1].regions)
    /\ \E pages \in SUBSET PaPages : young' = young \cup {<<0, p>> : p \in pages}
    /\ UNCHANGED <<pa_last, obs, max_nr_accesses>>

\* max_nr_accesses = damon_pa_check_accesses(ctx)
damon_pa_check_accesses ==
    LET c == PaCheckRegions(pa_last, <<>>, targets["c1"][1].regions, 0, young)
    IN /\ PaStep("pa_check", "pa_prepare", c.regions)
       /\ pa_last' = c.last
       /\ max_nr_accesses' = c.max
       /\ obs' = [obs EXCEPT !.iter = @ + 1]
       /\ UNCHANGED young

\* The context c1 has one target with the regions the user gave it, and its
\* worker is about to prepare the first access checks.
InitPa ==
    \E rs \in PaRegionLists :
        /\ InitCore([c \in Ctxs |-> IF c = "c1"
                                     THEN <<[damon_new_target(1) EXCEPT !.regions = rs]>>
                                     ELSE <<>>],
                    [c \in Ctxs |-> TRUE], [c \in Ctxs |-> TRUE], [c \in Ctxs |-> TRUE])
        /\ attrs = damon_user_ctx
        /\ attr_call = NoAttrCall
        /\ tgt_call = NoTargetsCall
        /\ tasks = <<>>
        /\ rop = NoRegionOp
        /\ nops = 0
        /\ mmap = <<>>
        /\ schemes = [c \in Ctxs |-> <<>>]
        /\ kpc = "pa_prepare"
        /\ max_nr_accesses = 0
        /\ mm_ok = {}
        /\ young = {}
        /\ last_chk = NoLastCheck
        /\ pa_last = NoPaLastCheck
        /\ obs = NoObs

NextPa ==
    \/ damon_pa_prepare_access_checks
    \/ PaSleep
    \/ damon_pa_check_accesses

\* Rounds of access checks on physical pages.
SpecPa == InitPa /\ [][NextPa]_vars

\* C28: a round of access checks adds one to the nr_accesses of a region when
\* the page of its sampling_addr is young at the time of the check, and
\* leaves it as it is otherwise, also when the result comes from the cache of
\* the page checked last, in any round and for the first region checked.
C28_CheckCountsYoung ==
    (kpc = "pa_prepare" /\ obs.iter > 0) =>
        \A j \in DOMAIN obs.prep :
            /\ targets["c1"][1].regions[j].sampling_addr = obs.prep[j].sampling_addr
            /\ targets["c1"][1].regions[j].nr_accesses =
                  obs.prep[j].nr_accesses
                  + (IF <<0, PageOf(obs.prep[j].sampling_addr)>> \in young THEN 1 ELSE 0)

(* ------------------------------------------------------------------ *)
(* Schemes (struct damos of include/linux/damon.h)                      *)
(* ------------------------------------------------------------------ *)

\* Largest age of a region; a scheme with max_age_region = MaxAge takes
\* regions of every age.
MaxAge == 1

\* A struct damos with the DAMOS_STAT action and no statistics yet.
damos_stat(min_sz, max_sz, min_nr, max_nr, min_age, max_age) ==
    [min_sz_region |-> min_sz, max_sz_region |-> max_sz,
     min_nr_accesses |-> min_nr, max_nr_accesses |-> max_nr,
     min_age_region |-> min_age, max_age_region |-> max_age,
     action |-> "DAMOS_STAT", stat_count |-> 0, stat_sz |-> 0]

\* The context "c1" has two targets and two schemes: one for the regions that
\* were accessed, one for every region.
InitSchemes ==
    /\ InitCore([c \in Ctxs |-> IF c = "c1"
                                  THEN <<damon_new_target(1), damon_new_target(2)>>
                                  ELSE <<>>],
                [c \in Ctxs |-> TRUE], [c \in Ctxs |-> TRUE], [c \in Ctxs |-> TRUE])
    /\ attrs = damon_user_ctx
    /\ attr_call = NoAttrCall
    /\ tgt_call = NoTargetsCall
    /\ tasks = <<>>
    /\ rop = NoRegionOp
    /\ nops = 0
    /\ InitMonFull(<<>>, [c \in Ctxs |->
           IF c = "c1"
           THEN <<damos_stat(0, 2, 1, MaxNrAccesses, 0, MaxAge),
                  damos_stat(0, 2, 0, MaxNrAccesses, 0, MaxAge)>>
           ELSE <<>>])

\* The monitoring of a context that has schemes.
SpecSchemes == InitSchemes /\ [][Next]_vars

\* The region r is in the ranges of the scheme s, whatever its age.
SchemeMatches(r, s) ==
    /\ s.min_sz_region <= r.end - r.start /\ r.end - r.start <= s.max_sz_region
    /\ s.min_nr_accesses <= r.nr_accesses /\ r.nr_accesses <= s.max_nr_accesses
    /\ s.min_age_region = 0 /\ s.max_age_region >= MaxAge

\* The regions of the targets of c that the scheme s matches: their number
\* and their sizes together.
MatchingRegions(c, s) ==
    [i \in DOMAIN targets[c] |->
        SelectSeq(targets[c][i].regions, LAMBDA r : SchemeMatches(r, s))]

NrMatching(c, s) == SumSeq([i \in DOMAIN targets[c] |-> Len(MatchingRegions(c, s)[i])])

SzMatching(c, s) ==
    SumSeq([i \in DOMAIN targets[c] |->
        SumSeq([j \in DOMAIN MatchingRegions(c, s)[i] |->
            MatchingRegions(c, s)[i][j].end - MatchingRegions(c, s)[i][j].start])])

\* C23: by the time an aggregation resets the counts, every scheme's stat_count
\* has grown by the number of regions in its ranges and its stat_sz by their
\* sizes, and no other step changes the statistics.
C23_SchemesApplied ==
    [][\A c \in Ctxs :
          IF \E k \in ThreadIds : kth[c][k].pc = "reset" /\ kth'[c][k].pc # "reset"
          THEN \A k \in ThreadIds :
                  (kth[c][k].pc = "reset" /\ kth'[c][k].pc # "reset") =>
                      \A j \in DOMAIN schemes[c] :
                          /\ schemes'[c][j].stat_count =
                                kth[c][k].stat0[j].stat_count + NrMatching(c, schemes[c][j])
                          /\ schemes'[c][j].stat_sz =
                                kth[c][k].stat0[j].stat_sz + SzMatching(c, schemes[c][j])
          ELSE (\A k \in ThreadIds :
                   kth[c][k].pc \notin {"after_aggregation", "reset", "set_stop",
                                        "set_stop_cs"})
                   => schemes'[c] = schemes[c]]_vars

(* ------------------------------------------------------------------ *)
(* Properties of starting and stopping                                  *)
(* ------------------------------------------------------------------ *)

\* The step in which __damon_stop(c), called by u, returns 0: its wait loop
\* finds damon_kdamond_running(c) false.
StopReturns0(u, c) ==
    /\ usr[u].pc = "stop_wait_cs"
    /\ usr[u].ctxs[usr[u].i] = c
    /\ usr'[u].pc \in {"stop", "idle"}

\* The step in which damon_stop(), called by u, returns 0.
DamonStopReturns0(u) ==
    /\ usr[u].pc = "stop_wait_cs"
    /\ usr'[u].pc = "idle"

\* The worker threads of c that have not yet cleared the worker handle.
Attached(c) ==
    {k \in ThreadIds : kth[c][k].pc \notin {"none", "dec", "dec_cs", "exit"}}

\* C1: after damon_start([ctx]) succeeded, when the following damon_stop([ctx])
\* returns 0 the worker handle of ctx is NULL and nr_running_ctxs has the value
\* it had before the start call.
C1_StartStopRestoresCounter ==
    [][\A u \in Callers :
          (DamonStopReturns0(u) /\ Len(usr[u].ctxs) = 1
             /\ usr[u].started = usr[u].ctxs)
          => /\ kdamond'[usr[u].ctxs[1]] = "NULL"
             /\ nr_running_ctxs' = usr[u].started_pre]_vars

\* A damon_start() call of u that has returned.
StartReturned(u) == usr[u].pc = "idle" /\ usr[u].op = "start"

\* The worker threads that exist.
Workers == {ck \in Ctxs \X ThreadIds : kth[ck[1]][ck[2]].pc # "none"}

\* The step is one of __damon_start(c) called by u.
StartCtxStep(u, c) ==
    /\ usr[u].pc = "start_ctx_cs"
    /\ usr[u].ctxs[usr[u].i] = c
    /\ usr'[u] # usr[u]

Uncounted == {ck \in Ctxs \X ThreadIds : kth[ck[1]][ck[2]].pc \notin {"none", "exit"}}

\* C35: nr_running_ctxs is never negative, and when no damon_start() call
\* holds damon_lock it is the number of workers that were spawned and have
\* not yet decremented it.
C35_CounterCountsWorkers ==
    /\ nr_running_ctxs >= 0
    /\ (\A u \in Callers : damon_lock # User(u)) =>
          nr_running_ctxs = Cardinality(Uncounted)

\* Two workers were counted, one of them has cleared its handle and is about
\* to decrement the counter, and a damon_start() call has returned -EBUSY.
C35_Witness ==
    /\ nr_running_ctxs = 2
    /\ damon_lock = NoOwner
    /\ \E ck \in Ctxs \X ThreadIds : kth[ck[1]][ck[2]].pc = "dec"
    /\ \E u \in Callers : StartReturned(u) /\ usr[u].err = "-EBUSY"

\* C36: when damon_start() returns an error, the call leaves no context of
\* its group with a handle that is not NULL and leaves nr_running_ctxs as it
\* found it.
C36_FailedStartLeavesNothing ==
    [][\A u \in Callers :
          (usr[u].pc = "start_loop" /\ usr'[u].pc = "idle" /\ usr'[u].err # "0") =>
              /\ nr_running_ctxs' = usr[u].pre
              /\ \A j \in DOMAIN usr[u].spawned : kdamond'[usr[u].spawned[j]] = "NULL"
              /\ usr'[u].err = "-ENOMEM" => kdamond'[usr[u].ctxs[usr[u].i]] = "NULL"
      ]_vars

\* A caller that has set the stop flag of context c in a damon_stop() call that
\* has not returned yet.
StopRequested(c) ==
    \E u \in DOMAIN usr :
       /\ usr[u].op = "stop"
       /\ usr[u].pc \in {"stop_wait", "stop_wait_cs"}
       /\ usr[u].ctxs[usr[u].i] = c

\* C37: a worker that damon_start() creates never acts on a stop request made
\* before that start.  The step that creates a worker of a context leaves the
\* context's stop flag false; the flag becomes true only in __damon_stop() or in
\* set_kdamond_stop() called by the worker the context's handle names; and a
\* worker that has not yet run a callback finds the flag true only when a
\* damon_stop() call set it after the start, whatever ended the previous run.
C37_NoStaleStop ==
    [][\A c \in Ctxs :
          /\ \A k \in DOMAIN kth[c] :
                /\ (kth[c][k].pc = "none" /\ kth'[c][k].pc # "none")
                      => (kth'[c][k].pc = "init" /\ ~kdamond_stop'[c])
                /\ (kth'[c][k].pc \in {"init", "before_start"} /\ kdamond_stop'[c])
                      => StopRequested(c)'
          /\ (~kdamond_stop[c] /\ kdamond_stop'[c])
                => \/ \E u \in DOMAIN usr :
                         /\ usr[u].pc = "stop_cs" /\ usr'[u].pc = "stop_wait"
                         /\ usr[u].ctxs[usr[u].i] = c
                         /\ kdamond[c] # "NULL"
                   \/ \E k \in DOMAIN kth[c] :
                         /\ kth[c][k].pc = "set_stop_cs"
                         /\ kth'[c][k].pc # "set_stop_cs"
                         /\ kdamond[c] = k]_vars

\* The first worker of a context has set the stop flag from a callback and is
\* about to exit; the second worker, created by a later damon_start(), evaluates
\* its stop condition with the flag false.
C37_Witness ==
    \E c \in Ctxs :
       /\ kth[c]["k1"].pc = "exit"
       /\ kth[c]["k1"].cb_true
       /\ kth[c]["k2"].pc = "need_stop_cs"
       /\ ~kth[c]["k2"].cb_true
       /\ ~kdamond_stop[c]

\* C3: a context never has more than one worker that runs kdamond_fn() up to the
\* clearing of the handle, that worker is the one the handle names, and a start
\* on a context whose handle is not NULL creates no worker for it.
C3_OneWorkerPerContext ==
    /\ [](\A c \in Ctxs :
            /\ Cardinality(Attached(c)) <= 1
            /\ \A k \in Attached(c) : kdamond[c] = k)
    /\ [][\A c \in Ctxs : kdamond[c] # "NULL" =>
             \A k \in ThreadIds : kth[c][k].pc = "none" => kth'[c][k].pc = "none"]_vars

\* A start on a context whose worker is running has been refused.
C3_Witness ==
    \E u \in Callers :
        /\ usr[u].pc = "start_loop"
        /\ usr[u].err = "-EBUSY"
        /\ Attached(usr[u].ctxs[usr[u].i]) # {}

\* C4: damon_stop() sets the stop flag while it holds the context mutex, and at
\* the moment __damon_stop() returns 0 for a context (for a group of one context,
\* the moment damon_stop() returns 0) the handle of the context is NULL, so
\* damon_kdamond_running() is false, and none of its targets has a region.
C4_StopWaitsForWorker ==
    [][\A u \in Callers, c \in Ctxs :
          /\ StopReturns0(u, c) =>
                /\ ~damon_kdamond_running(c)'
                /\ NrRegionsOf(c)' = 0
                /\ kdamond_stop[c]
          /\ (usr[u].pc = "stop_cs" /\ usr[u].ctxs[usr[u].i] = c
                /\ usr'[u].pc = "stop_wait") =>
                /\ kdamond_lock[c] = User(u)
                /\ kdamond_stop'[c]]_vars

\* damon_stop() has returned 0 for a context whose worker had built regions and
\* is still on its way out.
C4_Witness ==
    \E u \in Callers, c \in Ctxs :
        /\ usr[u].pc = "idle" /\ usr[u].op = "stop" /\ usr[u].err = "0"
        /\ usr[u].ctxs = <<c>>
        /\ targets[c] # <<>> /\ has_init_regions[c]
        /\ \E k \in ThreadIds : kth[c][k].pc \in {"dec", "dec_cs"}

\* The step in which __damon_stop(c), called by u, finds the handle NULL.
StopNoWorker(u, c) ==
    /\ usr[u].pc = "stop_cs"
    /\ usr[u].ctxs[usr[u].i] = c
    /\ kdamond[c] = "NULL"
    /\ usr'[u] # usr[u]

\* What damon_stop() does on a context without worker: it returns ret and
\* leaves the context as it was, its mutex released.
StopNoWorkerReturns(ret) ==
    \A u \in Callers, c \in Ctxs : StopNoWorker(u, c) =>
        /\ usr'[u].pc = "idle"
        /\ usr'[u].err = ret
        /\ kdamond_lock'[c] = NoOwner
        /\ UNCHANGED <<kdamond_stop, kdamond, targets, kth, nr_running_ctxs,
                       damon_lock>>

\* C5 as stated: damon_stop() on a context whose handle is NULL returns -ENOENT
\* and changes neither the stop flag nor any other state of the context.
C5_StopWithoutWorkerIsENOENT == [][StopNoWorkerReturns("-ENOENT")]_vars

\* C5 as amended: damon_stop() of mm/damon/core.c on a context whose handle is
\* NULL returns -EPERM and changes neither the stop flag nor any other state of
\* the context.
C5_StopWithoutWorkerIsEPERM == [][StopNoWorkerReturns("-EPERM")]_vars

\* damon_stop() has returned -EPERM.
C5_Witness ==
    \E u \in Callers :
        usr[u].pc = "idle" /\ usr[u].op = "stop" /\ usr[u].err = "-EPERM"

(* ------------------------------------------------------------------ *)
(* Termination                                                          *)
(* ------------------------------------------------------------------ *)

\* The scheduler runs every thread that can take a step, and a mutex that is
\* free again and again is eventually given to a thread that waits for it.
Fairness ==
    /\ \A c \in Ctxs, k \in ThreadIds : SF_vars(kdamond_fn(c, k))
    /\ SF_vars(damon_start("u1"))
    /\ SF_vars(damon_stop("u1"))

FairSpec == Spec /\ Fairness

\* C6: under fair scheduling every damon_stop() call returns, and every worker
\* whose context has the stop flag set terminates, whatever the preceding
\* damon_start() did (a start whose kthread_create() failed included).
C6_StopReturnsAndWorkerTerminates ==
    /\ \A u \in Callers :
          (usr[u].op = "stop" /\ usr[u].pc # "idle") ~> (usr[u].pc = "idle")
    /\ \A c \in Ctxs, k \in ThreadIds :
          (kth[c][k].pc # "none" /\ kdamond_stop[c]) ~> (kth[c][k].pc = "none")

(* ------------------------------------------------------------------ *)
(* Properties of the worker                                             *)
(* ------------------------------------------------------------------ *)

\* The positions of a worker inside the body of its loop.
InIteration ==
    {"prepare", "after_sampling", "sleep", "check", "aggregate", "after_aggregation",
     "reset"}

\* C7: the stop condition is evaluated before every iteration, the first
\* included, and is true exactly when the stop flag is set or the target_valid
\* hook is set and returns false for every target (for none, when there is no
\* target); a worker whose targets are all invalid from its start takes no step
\* of the loop body.
C7_StopCondition ==
    [][\A c \in Ctxs, k \in ThreadIds :
          /\ (kth[c][k].pc = "need_stop_cs" /\ kth'[c][k] # kth[c][k]) =>
                /\ kth'[c][k].pc \in {"destroy", "prepare"}
                /\ (kth'[c][k].pc = "destroy") <=>
                      (kdamond_stop[c] \/ (has_target_valid[c] /\ AllInvalid(c)))
          /\ (kth'[c][k].pc \in {"destroy", "prepare"} /\ kth[c][k].pc # kth'[c][k].pc) =>
                kth[c][k].pc = "need_stop_cs"
          /\ (kth[c][k].pc = "before_start" /\ kth'[c][k].pc \notin {"before_start", "set_stop"}) =>
                kth'[c][k].pc = "need_stop"
          /\ kth[c][k].dead_at_start => kth'[c][k].pc \notin InIteration]_vars

\* A worker whose two targets were invalid when it started has left its loop.
C7_Witness ==
    \E c \in Ctxs, k \in ThreadIds :
        /\ kth[c][k].dead_at_start
        /\ Len(targets[c]) = 2
        /\ ~kdamond_stop[c]
        /\ kth[c][k].pc = "before_terminate"

\* The step the worker goes on with after each callback.
AfterCallback ==
    [before_start |-> "need_stop", after_sampling |-> "sleep",
     after_aggregation |-> "reset", before_terminate |-> "cleanup"]

\* C8: a callback that returns true gets the stop flag set, which stays set
\* while the worker is the context's worker; the worker goes on after the
\* callback as after one that returned false, so it completes the iteration, and
\* it begins no further iteration.
C8_CallbackTrueStops ==
    /\ [](\A c \in Ctxs, k \in ThreadIds :
            (kth[c][k].cb_true /\ kth[c][k].pc \notin {"set_stop", "set_stop_cs"}
               /\ k \in Attached(c)) => kdamond_stop[c])
    /\ [][\A c \in Ctxs, k \in ThreadIds :
            /\ (kth[c][k].pc \in DOMAIN AfterCallback /\ kth'[c][k] # kth[c][k]) =>
                  \/ kth'[c][k].pc = AfterCallback[kth[c][k].pc] /\ ~kth'[c][k].cb_true
                                                                  /\ ~kth[c][k].cb_true
                  \/ kth'[c][k].pc = AfterCallback[kth[c][k].pc] /\ kth[c][k].cb_true
                                                                  /\ kth'[c][k].cb_true
                  \/ /\ kth'[c][k].pc = "set_stop"
                     /\ kth'[c][k].cont = AfterCallback[kth[c][k].pc]
                     /\ kth'[c][k].cb_true
            /\ (kth[c][k].pc = "set_stop_cs" /\ kth'[c][k] # kth[c][k]) =>
                  /\ kdamond_stop'[c]
                  /\ kth'[c][k].pc = kth[c][k].cont
            /\ (kth[c][k].cb_true /\ kth[c][k].pc \notin {"set_stop", "set_stop_cs"}) =>
                  kth'[c][k].pc # "prepare"
            /\ (kth[c][k].pc \in InIteration /\ kth'[c][k].pc \notin InIteration
                  /\ kth'[c][k].pc \notin {"set_stop", "set_stop_cs"}) =>
                  kth'[c][k].pc = "need_stop"]_vars

\* The after_sampling callback returned true and the worker went on to check
\* the accesses of that iteration.
C8_Witness ==
    \E c \in Ctxs, k \in ThreadIds :
        kth[c][k].cb_true /\ kth[c][k].pc = "aggregate" /\ kdamond_stop[c]

\* The worker of c in slot k takes the step of ExitOrder named what.
ExitStep(c, k, what) ==
    /\ kth'[c][k].log = Append(kth[c][k].log, what)

\* C9: after its loop the worker destroys all regions of all targets, invokes
\* before_terminate, calls cleanup, clears the handle with the context mutex
\* held and decrements nr_running_ctxs with damon_lock held, in this order and
\* each once; nothing else clears the handle or decrements the counter.
C9_ExitOrder ==
    /\ [](\A c \in Ctxs, k \in ThreadIds :
            /\ Len(kth[c][k].log) <= Len(ExitOrder)
            /\ kth[c][k].log = SubSeq(ExitOrder, 1, Len(kth[c][k].log))
            /\ kth[c][k].pc = "exit" => kth[c][k].log = ExitOrder
            /\ kth[c][k].pc \in InIteration \cup {"init", "before_start", "need_stop",
                                                  "need_stop_cs", "destroy"}
                  => kth[c][k].log = <<>>)
    /\ [][/\ \A c \in Ctxs, k \in ThreadIds :
               /\ ExitStep(c, k, "destroy_regions") =>
                     kth[c][k].pc = "destroy" /\ NrRegionsOf(c)' = 0
               /\ ExitStep(c, k, "clear_kdamond") =>
                     /\ kdamond_lock[c] = Kd(c, k)
                     /\ kdamond[c] = k /\ kdamond'[c] = "NULL"
               /\ ExitStep(c, k, "dec_nr_running_ctxs") =>
                     /\ damon_lock = Kd(c, k)
                     /\ nr_running_ctxs' = nr_running_ctxs - 1
          /\ \A c \in Ctxs : (kdamond[c] # "NULL" /\ kdamond'[c] = "NULL") =>
                \E k \in ThreadIds : ExitStep(c, k, "clear_kdamond")
          /\ nr_running_ctxs' < nr_running_ctxs =>
                \E c \in Ctxs, k \in ThreadIds : ExitStep(c, k, "dec_nr_running_ctxs")]_vars

\* A worker that had built regions has taken all its steps after the loop.
C9_Witness ==
    \E c \in Ctxs, k \in ThreadIds :
        /\ kth[c][k].pc = "exit"
        /\ kth[c][k].log = ExitOrder
        /\ targets[c] # <<>> /\ has_init_regions[c]

(* ------------------------------------------------------------------ *)
(* mm/damon.c: damon_start(), damon_stop() and the end of kdamond_fn() *)
(* ------------------------------------------------------------------ *)

\* The context and the caller of the single-context controller.
Ctl == "c1"
CtlUser == "u1"

\* A thread slot with no thread in it; should_stop is KTHREAD_SHOULD_STOP.
NoKthread == [pc |-> "none", should_stop |-> FALSE]

\* The caller outside any call; arg is the pointer it hands to kthread_stop().
IdleCaller == [pc |-> "idle", op |-> "", err |-> "0", arg |-> "NULL"]

ctl_unused == <<damon_lock, nr_running_ctxs, kdamond_stop, targets, has_target_valid,
                has_init_regions, has_callbacks, attr_vars, rgn_vars>>

\* A user calls damon_start(ctx) or damon_stop(ctx).
CtlCall ==
    /\ usr[CtlUser].pc = "idle"
    /\ ncalls < MaxCalls
    /\ \E op \in {"start", "stop"} :
          usr' = [usr EXCEPT ![CtlUser] = [IdleCaller EXCEPT !.pc = "lock", !.op = op]]
    /\ ncalls' = ncalls + 1
    /\ UNCHANGED <<kdamond, kdamond_lock, alive, kth, ctl_unused>>

\* mutex_lock(&ctx->kdamond_lock), the first statement of both calls
CtlLock ==
    /\ usr[CtlUser].pc = "lock"
    /\ kdamond_lock[Ctl] = NoOwner
    /\ kdamond_lock' = [kdamond_lock EXCEPT ![Ctl] = User(CtlUser)]
    /\ usr' = [usr EXCEPT ![CtlUser].pc = IF usr[CtlUser].op = "start"
                                           THEN "start_cs" ELSE "stop_cs"]
    /\ UNCHANGED <<kdamond, alive, kth, ncalls, ctl_unused>>

\* damon_start(): if (!ctx->kdamond) ctx->kdamond = kthread_run(kdamond_fn, ...);
\* kthread_run() returns the running thread or an ERR_PTR.
CtlStart ==
    /\ usr[CtlUser].pc = "start_cs"
    /\ kdamond_lock' = [kdamond_lock EXCEPT ![Ctl] = NoOwner]
    /\ IF kdamond[Ctl] = "NULL"
       THEN \/ /\ FreeThreads(Ctl) # {}
               /\ kdamond' = [kdamond EXCEPT ![Ctl] = NextThread(Ctl)]
               /\ kth' = [kth EXCEPT ![Ctl][NextThread(Ctl)] =
                             [NoKthread EXCEPT !.pc = "loop"]]
               /\ usr' = [usr EXCEPT ![CtlUser].pc = "idle"]
            \/ /\ kdamond' = [kdamond EXCEPT ![Ctl] = "ERR"]
               /\ usr' = [usr EXCEPT ![CtlUser].pc = "idle", ![CtlUser].err = "-ENOMEM"]
               /\ kth' = kth
       ELSE /\ usr' = [usr EXCEPT ![CtlUser].pc = "idle", ![CtlUser].err = "-EBUSY"]
            /\ UNCHANGED <<kdamond, kth>>
    /\ UNCHANGED <<alive, ncalls, ctl_unused>>

\* damon_stop(): if (ctx->kdamond) { mutex_unlock(&ctx->kdamond_lock); ...
\* and otherwise mutex_unlock(); return -EBUSY;
CtlStopCheck ==
    /\ usr[CtlUser].pc = "stop_cs"
    /\ kdamond_lock' = [kdamond_lock EXCEPT ![Ctl] = NoOwner]
    /\ usr' = IF kdamond[Ctl] # "NULL"
              THEN [usr EXCEPT ![CtlUser].pc = "stop_read"]
              ELSE [usr EXCEPT ![CtlUser].pc = "idle", ![CtlUser].err = "-EBUSY"]
    /\ UNCHANGED <<kdamond, alive, kth, ncalls, ctl_unused>>

\* damon_stop(): the argument of kthread_stop(ctx->kdamond) is read from the
\* context after the mutex was released.
CtlStopRead ==
    /\ usr[CtlUser].pc = "stop_read"
    /\ usr' = [usr EXCEPT ![CtlUser].pc = "kthread_stop",
                          ![CtlUser].arg = kdamond[Ctl]]
    /\ UNCHANGED <<kdamond, kdamond_lock, alive, kth, ncalls, ctl_unused>>

\* kthread_stop(k): sets should_stop of a thread that has not exited and waits
\* for its exit; any other pointer makes the caller fault.
kthread_stop ==
    /\ usr[CtlUser].pc = "kthread_stop"
    /\ IF usr[CtlUser].arg \in ThreadIds /\ kth[Ctl][usr[CtlUser].arg].pc # "none"
       THEN /\ kth' = [kth EXCEPT ![Ctl][usr[CtlUser].arg].should_stop = TRUE]
            /\ usr' = [usr EXCEPT ![CtlUser].pc = "kthread_wait"]
       ELSE /\ usr' = [usr EXCEPT ![CtlUser].pc = "fault"]
            /\ kth' = kth
    /\ UNCHANGED <<kdamond, kdamond_lock, alive, ncalls, ctl_unused>>

\* kthread_stop(): wait_for_completion() of the thread's exit
KthreadWait ==
    /\ usr[CtlUser].pc = "kthread_wait"
    /\ kth[Ctl][usr[CtlUser].arg].pc = "none"
    /\ usr' = [usr EXCEPT ![CtlUser].pc = "stop_wait"]
    /\ UNCHANGED <<kdamond, kdamond_lock, alive, kth, ncalls, ctl_unused>>

\* damon_stop(): while (damon_kdamond_running(ctx)) usleep_range(); return 0;
\* the call returns once it reads a NULL handle with the mutex held.
CtlStopWait ==
    /\ usr[CtlUser].pc = "stop_wait"
    /\ kdamond_lock[Ctl] = NoOwner
    /\ ~damon_kdamond_running(Ctl)
    /\ usr' = [usr EXCEPT ![CtlUser].pc = "idle"]
    /\ UNCHANGED <<kdamond, kdamond_lock, alive, kth, ncalls, ctl_unused>>

\* kdamond_need_stop() of mm/damon.c: kthread_should_stop(), or no target task
\* has a task_struct left.
task_need_stop(k) ==
    \/ kth[Ctl][k].should_stop
    \/ \A i \in DOMAIN tasks : tasks[i].pid \notin alive

\* kdamond_fn(): the monitoring loop ends when kdamond_need_stop() is true; the
\* worker flushes the record buffer and destroys the regions.
KdLeaveLoop(k) ==
    /\ kth[Ctl][k].pc = "loop"
    /\ task_need_stop(k)
    /\ kth' = [kth EXCEPT ![Ctl][k].pc = "clear"]
    /\ UNCHANGED <<kdamond, kdamond_lock, alive, usr, ncalls, ctl_unused>>

\* kdamond_fn(): mutex_lock(&ctx->kdamond_lock)
KdClearLock(k) ==
    /\ kth[Ctl][k].pc = "clear"
    /\ kdamond_lock[Ctl] = NoOwner
    /\ kdamond_lock' = [kdamond_lock EXCEPT ![Ctl] = Kd(Ctl, k)]
    /\ kth' = [kth EXCEPT ![Ctl][k].pc = "clear_cs"]
    /\ UNCHANGED <<kdamond, alive, usr, ncalls, ctl_unused>>

\* kdamond_fn(): ctx->kdamond = NULL; mutex_unlock(&ctx->kdamond_lock)
KdClear(k) ==
    /\ kth[Ctl][k].pc = "clear_cs"
    /\ kdamond' = [kdamond EXCEPT ![Ctl] = "NULL"]
    /\ kdamond_lock' = [kdamond_lock EXCEPT ![Ctl] = NoOwner]
    /\ kth' = [kth EXCEPT ![Ctl][k].pc = "return"]
    /\ UNCHANGED <<alive, usr, ncalls, ctl_unused>>

\* kdamond_fn(): return 0; the thread exits.
KdReturn(k) ==
    /\ kth[Ctl][k].pc = "return"
    /\ kth' = [kth EXCEPT ![Ctl][k] = NoKthread]
    /\ UNCHANGED <<kdamond, kdamond_lock, alive, usr, ncalls, ctl_unused>>

\* A target task exits: damon_get_task_struct() finds no task for its pid.
TaskExits(pid) ==
    /\ pid \in alive
    /\ alive' = alive \ {pid}
    /\ UNCHANGED <<kdamond, kdamond_lock, kth, usr, ncalls, ctl_unused>>

\* One context with one or two target tasks, all alive, and no worker.
InitCtl ==
    \E pids \in {<<1>>, <<1, 2>>} :
        /\ damon_lock = NoOwner
        /\ nr_running_ctxs = 0
        /\ kdamond = [c \in Ctxs |-> "NULL"]
        /\ kdamond_stop = [c \in Ctxs |-> FALSE]
        /\ kdamond_lock = [c \in Ctxs |-> NoOwner]
        /\ targets = [c \in Ctxs |-> <<>>]
        /\ has_target_valid = [c \in Ctxs |-> FALSE]
        /\ has_init_regions = [c \in Ctxs |-> FALSE]
        /\ has_callbacks = [c \in Ctxs |-> FALSE]
        /\ alive = {pids[i] : i \in DOMAIN pids}
        /\ kth = [c \in Ctxs |-> [k \in ThreadIds |-> NoKthread]]
        /\ usr = [u \in Callers |-> IdleCaller]
        /\ ncalls = 0
        /\ attrs = damon_user_ctx
        /\ attr_call = NoAttrCall
        /\ tgt_call = NoTargetsCall
        /\ tasks = [i \in DOMAIN pids |-> damon_new_task(pids[i])]
        /\ rop = NoRegionOp
        /\ nops = 0
        /\ mmap = <<>>
        /\ schemes = [c \in Ctxs |-> <<>>]
        /\ kpc = "init"
        /\ max_nr_accesses = 0
        /\ mm_ok = {}
        /\ young = {}
        /\ last_chk = NoLastCheck
        /\ pa_last = NoPaLastCheck
        /\ obs = NoObs

NextCtl ==
    \/ CtlCall
    \/ CtlLock
    \/ CtlStart
    \/ CtlStopCheck
    \/ CtlStopRead
    \/ kthread_stop
    \/ KthreadWait
    \/ CtlStopWait
    \/ \E k \in ThreadIds : KdLeaveLoop(k)
    \/ \E k \in ThreadIds : KdClearLock(k)
    \/ \E k \in ThreadIds : KdClear(k)
    \/ \E k \in ThreadIds : KdReturn(k)
    \/ \E pid \in AllTargetIds : TaskExits(pid)

SpecCtl == InitCtl /\ [][NextCtl]_vars

\* C38: in damon_stop() of mm/damon.c, racing with a worker that ends by itself
\* because every target task died, the pointer handed to kthread_stop() names
\* a worker and ctx->kdamond still names that worker: it is not NULL and the
\* worker has not cleared its handle.
C38_StopPassesLiveWorker ==
    (usr[CtlUser].pc = "kthread_stop" /\ usr[CtlUser].arg # "ERR")
        => /\ usr[CtlUser].arg \in ThreadIds
           /\ kdamond[Ctl] = usr[CtlUser].arg

(* ------------------------------------------------------------------ *)
(* mm/damon.c: the record buffer                                        *)
(* ------------------------------------------------------------------ *)

\* The largest offset the model follows the record buffer to.
MaxOffset == 12

\* The longest buffer damon_set_recording() accepts (4 MiB in the source) and
\* the length damon_init_user_ctx() sets (1 MiB), in the units of the model.
RbufLenLimit == 8
InitRbufLen == 4

\* The lengths damon_set_recording() is called with.
RbufLens == {0, 1, 4, 8, 9}

\* The sizes of the items kdamond_reset_aggregated() writes: an unsigned int,
\* an unsigned long and a struct timespec64.
ItemSizes == {1, 2, 4}

rbuf_unused == <<core_vars, attr_call, tgt_call, tasks, nops, max_nr_accesses, mm_ok,
                 young, last_chk, pa_last, obs, mmap, schemes>>

\* damon_set_recording(ctx, rbuf_len, rfile_path), called while no worker runs;
\* kvmalloc() gives the buffer or fails.  rbuf_offset is not written.
damon_set_recording(rbuf_len) ==
    /\ kpc = "stopped"
    /\ IF rbuf_len > RbufLenLimit
       THEN /\ attrs' = attrs
            /\ rop' = [op |-> "set_recording", pre |-> attrs, arg |-> "-EINVAL"]
       ELSE \E allocated \in BOOLEAN :
               /\ attrs' = [attrs EXCEPT !.rbuf_len = rbuf_len,
                                         !.rbuf = rbuf_len # 0 /\ allocated]
               /\ rop' = [op |-> "set_recording", pre |-> attrs,
                          arg |-> IF rbuf_len # 0 /\ ~allocated THEN "-ENOMEM" ELSE "0"]
    /\ UNCHANGED <<kpc, rbuf_unused>>

\* damon_start(): the worker begins to run.
RbufWorkerStarts ==
    /\ kpc = "stopped"
    /\ kpc' = "running"
    /\ rop' = [op |-> "start", pre |-> attrs, arg |-> 0]
    /\ UNCHANGED <<attrs, rbuf_unused>>

\* kdamond_reset_aggregated() calls damon_write_rbuf(c, data, size).
RbufWriteCall ==
    /\ kpc = "running"
    /\ \E size \in ItemSizes :
          rop' = [op |-> "write", pre |-> attrs, arg |-> size]
    /\ kpc' = "write"
    /\ UNCHANGED <<attrs, rbuf_unused>>

\* damon_write_rbuf(): if (!ctx->rbuf_len || !ctx->rbuf) return;
\* if (ctx->rbuf_offset + size > ctx->rbuf_len) damon_flush_rbuffer(ctx);
damon_write_rbuf ==
    /\ kpc = "write"
    /\ kpc' = IF attrs.rbuf_len = 0 \/ ~attrs.rbuf THEN "running"
              ELSE IF attrs.rbuf_offset + rop.arg > attrs.rbuf_len THEN "flush"
              ELSE "copy"
    /\ UNCHANGED <<attrs, rop, rbuf_unused>>

\* Where damon_flush_rbuffer() returns to: the memcpy() of damon_write_rbuf()
\* or the end of kdamond_fn().
AfterFlush == IF rop.op = "write" THEN "copy" ELSE "stopped"

\* damon_flush_rbuffer(): one test of while (ctx->rbuf_offset) and one pass
\* through the body.  filp_open() fails or not; sz is what kernel_write()
\* returns: an error, or the number of bytes written, from none to all;
\* ctx->rbuf_offset -= sz.
damon_flush_rbuffer ==
    /\ kpc = "flush"
    /\ IF attrs.rbuf_offset = 0
       THEN /\ kpc' = AfterFlush
            /\ attrs' = attrs
       ELSE \/ /\ kpc' = AfterFlush
               /\ attrs' = attrs
            \/ \E sz \in {-1} \cup (0..attrs.rbuf_offset) :
                  /\ attrs.rbuf_offset - sz <= MaxOffset
                  /\ attrs' = [attrs EXCEPT !.rbuf_offset = @ - sz]
                  /\ kpc' = "flush"
    /\ UNCHANGED <<rop, rbuf_unused>>

\* damon_write_rbuf(): memcpy(&ctx->rbuf[ctx->rbuf_offset], data, size);
\* ctx->rbuf_offset += size;
RbufCopy ==
    /\ kpc = "copy"
    /\ attrs.rbuf_offset + rop.arg <= MaxOffset
    /\ attrs' = [attrs EXCEPT !.rbuf_offset = @ + rop.arg]
    /\ kpc' = "running"
    /\ UNCHANGED <<rop, rbuf_unused>>

\* kdamond_fn(): the loop has ended; damon_flush_rbuffer(ctx) before the worker
\* returns.
RbufWorkerStops ==
    /\ kpc = "running"
    /\ kpc' = "flush"
    /\ rop' = [op |-> "stop", pre |-> attrs, arg |-> 0]
    /\ UNCHANGED <<attrs, rbuf_unused>>

\* The context after damon_init_user_ctx(): recording is set up, no worker
\* runs.
InitRbuf ==
    /\ InitCore([c \in Ctxs |-> <<>>], [c \in Ctxs |-> TRUE],
                [c \in Ctxs |-> TRUE], [c \in Ctxs |-> TRUE])
    /\ attrs = [rbuf_len |-> InitRbufLen, rbuf |-> TRUE, rbuf_offset |-> 0]
    /\ attr_call = NoAttrCall
    /\ tgt_call = NoTargetsCall
    /\ tasks = <<>>
    /\ rop = NoRegionOp
    /\ nops = 0
    /\ mmap = <<>>
    /\ schemes = [c \in Ctxs |-> <<>>]
    /\ kpc = "stopped"
    /\ max_nr_accesses = 0
    /\ mm_ok = {}
    /\ young = {}
    /\ last_chk = NoLastCheck
    /\ pa_last = NoPaLastCheck
    /\ obs = NoObs

NextRbuf ==
    \/ \E rbuf_len \in RbufLens : damon_set_recording(rbuf_len)
    \/ RbufWorkerStarts
    \/ RbufWriteCall
    \/ damon_write_rbuf
    \/ damon_flush_rbuffer
    \/ RbufCopy
    \/ RbufWorkerStops

SpecRbuf == InitRbuf /\ [][NextRbuf]_vars

\* C40: rbuf_offset is never larger than rbuf_len, and the memcpy() of
\* damon_write_rbuf() never writes past the end of the record buffer, whatever
\* filp_open() and kernel_write() return and whatever the size of the item.
C40_RbufWithinBounds ==
    /\ attrs.rbuf_offset <= attrs.rbuf_len
    /\ kpc = "copy" => attrs.rbuf_offset + rop.arg <= attrs.rbuf_len
====
